---- MODULE Spec2Model ----
(***************************************************************************)
(* A model of the roam-backend data-integration engine.                    *)
(*                                                                         *)
(* Part I   overlay fan-out: Traffic.poll / Hazards.poll and their pack    *)
(*          cache (app/services/traffic.py, app/services/hazards.py).      *)
(* Part II  corridor extractor: Corridor.ensure (app/services/corridor.py).*)
(* Part III POI engine: Places.search / Places.search_corridor_polyline    *)
(*          (app/services/places.py, places_store.py).                     *)
(*                                                                         *)
(* Conventions.  Optional values (Python None) are the empty tuple <<>>,   *)
(* a present value v is <<v>>.  Timestamps are whole seconds of the        *)
(* variable now.  Angles are integers in centidegrees (0.01 degree).       *)
(***************************************************************************)
EXTENDS Integers, Sequences, FiniteSets, TLC

VARIABLES
    now,            \* time.time(): wall clock shared by every service
    ovl,            \* the overlay request under study: [svc, bbox]
    overlay_packs,  \* the row of traffic_packs / hazard_packs under the key of ovl
    poll,           \* the Traffic.poll / Hazards.poll call in progress, or its result
    creq,           \* the corridor request under study: [buffer_m, max_edges]
    edges_db,       \* the rows of the edge store (edges joined with edges_rtree)
    corridor_packs, \* table corridor_packs: corridor_key -> <<>> or <<pack>>
    ensured,        \* the last Corridor.ensure call: arguments, operations, result
    preq,           \* the places request under study (search or corridor search)
    supa,           \* settings.supa_enabled: is the remote POI store configured
    places_items,   \* table places_items: the osm ids held by the local store
    supa_items,     \* the osm ids held by the remote POI store
    places_tile_state, \* table places_tile_state: tile_key -> <<>> or <<last_fetched>>
    places_packs,   \* table places_packs: places_key -> <<>> or <<pack>>
    found,          \* the last Places call: operations performed and result
    pack_json_len,  \* length(pack_json) of the row each pack table holds for the plan
    manifests,      \* table manifests: plan_id -> <<>> or <<manifest>>
    touched,        \* has a pack row been written since the last build_manifest
    bundled,        \* the Bundle call that has just returned, and its outcome
    deployed,       \* the service under study and the release that runs: [svc, release]
    version_packs,  \* the pack table of that service: rows [key, pack]
    served,         \* the call of that service that has just returned
    nav_packs,      \* table nav_packs: rows [route_key, pack]
    routed,         \* the POST /nav/route call that has just returned
    keyed,          \* two nav requests and the route keys computed for them
    cap,            \* two CAP alerts and the priorities computed for them
    poly,           \* a coordinate list, its polyline6 encoding and the decoding of it
    cfg,            \* the settings the top-up reads
    topup,          \* the Places.search call whose top-up is under study
    fetch,          \* the _fetch_overpass_with_retries call of that top-up
    upstream,       \* the feature as the QLD road authority publishes it now
    qcache,         \* _QCACHE: the process-wide merge cache of the QLD provider
    qpolls,         \* the QLD provider poll of each poller: position, response on its way, result
    qlast,          \* the last delta merge that completed, <<>> if none: its request time and feature
    dist,           \* an item position, the samples and the buffer of a corridor filter decision
    ptable,         \* table places_items with its columns: a set of rows
    tile_cats,      \* column categories_json of places_tile_state: tile_key -> categories
    build           \* the POST /bundle/build call in progress, or its outcome

overlayVars == <<ovl, overlay_packs, poll>>
corridorVars == <<creq, edges_db, corridor_packs, ensured>>
placesVars ==
    <<preq, supa, places_items, supa_items, places_tile_state, places_packs, found>>
bundleVars == <<pack_json_len, manifests, touched, bundled>>
versionVars == <<deployed, version_packs, served>>
navVars == <<nav_packs, routed>>
topupVars == <<cfg, topup, fetch>>
qldVars == <<upstream, qcache, qpolls, qlast>>
lastVars == <<dist, ptable, tile_cats, build>>
moreVars == <<topupVars, qldVars, lastVars>>
laterVars == <<navVars, keyed, cap, poly, moreVars>>
otherVars == <<bundleVars, versionVars, laterVars>>

(***************************************************************************)
(* Bounds of the model.                                                    *)
(***************************************************************************)
\* The clock runs 0..MaxTime.
MaxTime == 3
\* A source answers one poll with at most MaxFeed features.
MaxFeed == 1

(***************************************************************************)
(* Small helpers.                                                          *)
(***************************************************************************)
SeqsUpTo(S, n) == UNION {[1..k -> S] : k \in 0..n}

Range(s) == {s[i] : i \in 1..Len(s)}

(***************************************************************************)
(* Part I.  Overlay fan-out.                                               *)
(***************************************************************************)

\* An ISO-8601 string as the services exchange it: absent, unparseable, or
\* the instant t.
NoneStr == [kind |-> "none", t |-> 0]
BadStr == [kind |-> "bad", t |-> 0]
IsoStr(t) == [kind |-> "iso", t |-> t]

\* utc_now_iso(): the current instant as an ISO string.
utc_now_iso == IsoStr(now)

\* _parse_iso_to_epoch: None for an absent, empty or unparseable string.
_parse_iso_to_epoch(s) == IF s.kind = "iso" THEN <<s.t>> ELSE <<>>

\* settings.overlays_cache_seconds (120 s in the source; one model second
\* stands for 60 s).
overlays_cache_seconds == 2

\* The threshold 0.35 degrees of the "big enough" heuristic, in centidegrees.
bbox_diag_min == 35

\* _is_fresh(created_at, max_age_s)
_is_fresh(created_at, max_age_s) ==
    IF max_age_s <= 0 THEN FALSE
    ELSE LET ts == _parse_iso_to_epoch(created_at)
         IN  IF ts = <<>> THEN FALSE ELSE (now - ts[1]) <= max_age_s

\* _event_is_expired / _is_expired (end_str)
_event_is_expired(end_str) ==
    IF end_str.kind = "none" THEN FALSE
    ELSE LET ts == _parse_iso_to_epoch(end_str)
         IN  IF ts = <<>> THEN FALSE ELSE now > ts[1]

\* max_age = int(cache_seconds or settings.overlays_cache_seconds)
max_age_of(cache_seconds) ==
    IF cache_seconds = <<>> \/ cache_seconds[1] = 0
    THEN overlays_cache_seconds
    ELSE cache_seconds[1]

BBox4(minLng, minLat, maxLng, maxLat) ==
    [minLng |-> minLng, minLat |-> minLat, maxLng |-> maxLng, maxLat |-> maxLat]

\* _bbox_intersects(a, b): a is a list [minLng, minLat, maxLng, maxLat].
_bbox_intersects(a, b) ==
    ~(a[3] < b.minLng \/ a[1] > b.maxLng \/ a[4] < b.minLat \/ a[2] > b.maxLat)

\* _STATE_BOUNDS
_STATE_BOUNDS ==
    [qld |-> <<13750, -2950, 15450, -950>>,
     nsw |-> <<14050, -3760, 15400, -2750>>,
     vic |-> <<14050, -3930, 15050, -3350>>,
     sa  |-> <<12850, -3820, 14150, -2550>>,
     wa  |-> <<11250, -3520, 12950, -1350>>,
     nt  |-> <<12850, -2650, 13850, -1050>>,
     tas |-> <<14350, -4380, 14900, -3930>>,
     act |-> <<14850, -3600, 14950, -3500>>]

\* sorted(...) of the state codes, as a fixed alphabetical order.
StateOrder == <<"act", "nsw", "nt", "qld", "sa", "tas", "vic", "wa">>

\* states_for_bbox(bbox): the codes whose bounds overlap, sorted.
states_for_bbox(bbox) ==
    LET Overlaps(code) == _bbox_intersects(_STATE_BOUNDS[code], bbox)
    IN  SelectSeq(StateOrder, Overlaps)

\* _STATE_PROVIDERS: the states that have a traffic provider.
_STATE_PROVIDERS == {"qld", "nsw", "vic", "sa", "wa", "nt"}

\* Traffic.poll: query_states (ACT is covered by NSW).
query_states(bbox) ==
    LET active == states_for_bbox(bbox)
        HasProvider(s) == s \in _STATE_PROVIDERS
        qs == SelectSeq(active, HasProvider)
    IN  IF "act" \in Range(active) /\ "nsw" \notin Range(qs)
        THEN Append(qs, "nsw") ELSE qs

\* The query bboxes of the model (centidegrees), all on the QLD/NSW border
\* except the offshore one.  The diagonal of WideBBox is exactly 0.35 deg.
NarrowBBox == BBox4(15300, -2810, 15310, -2800)
WideBBox == BBox4(15300, -2828, 15321, -2800)
OffshoreBBox == BBox4(16000, -2810, 16010, -2800)
QueryBBoxes == {NarrowBBox, WideBBox, OffshoreBBox}

\* Squared diagonal of a bbox; bbox_diag >= 0.35 is compared on the squares.
bbox_diag_sq(bbox) ==
    LET dx == bbox.maxLng - bbox.minLng
        dy == bbox.maxLat - bbox.minLat
    IN  dx * dx + dy * dy

\* What the upstream feeds can deliver: a feature with its stable id, its
\* end time and the bbox of its geometry (<<>>: no geometry).
InsideGeom == <<15305, -2805, 15306, -2804>>
OutsideGeom == <<14000, -2000, 14001, -1999>>
RawEvent(id, end_at, bbox) == [id |-> id, end_at |-> end_at, bbox |-> bbox]
RawEvents ==
    { RawEvent("a", NoneStr, InsideGeom),
      RawEvent("a", IsoStr(2), <<>>),
      RawEvent("b", IsoStr(1), InsideGeom),
      RawEvent("b", NoneStr, OutsideGeom),
      RawEvent("b", BadStr, <<>>) }

\* The per-source parsers (_feature_to_event, _parse_feature, _parse_cap ...):
\* an event whose end time has passed is pruned at parse time.
_feature_to_event(f) == IF _event_is_expired(f.end_at) THEN <<>> ELSE <<f>>

\* Traffic providers: "if ev.bbox and not _bbox_intersects(ev.bbox, bbox): continue".
traffic_admits(ev, bbox) == ~(ev.bbox # <<>> /\ ~_bbox_intersects(ev.bbox, bbox))

\* Hazards.poll: spatial events are bbox-filtered, non-spatial ones are
\* admitted only if the query bbox is big enough.
hazards_admits(ev, bbox) ==
    IF ev.bbox # <<>> /\ Len(ev.bbox) = 4
    THEN _bbox_intersects(ev.bbox, bbox)
    ELSE bbox_diag_sq(bbox) >= bbox_diag_min * bbox_diag_min

admits(svc, ev, bbox) ==
    IF svc = "traffic" THEN traffic_admits(ev, bbox) ELSE hazards_admits(ev, bbox)

\* Parse one response and keep the admitted events, in feed order.
events_of(svc, feats, bbox) ==
    LET Keep(f) == _feature_to_event(f) # <<>> /\ admits(svc, f, bbox)
    IN  SelectSeq(feats, Keep)

\* The sources one poll goes through, in the order of the code's loops.
\* Traffic: one provider per query state.  Hazards: one feed per active
\* state (the BOM RSS feed of NSW, the disaster CAP feed of QLD).
hazard_feed == [s \in Range(StateOrder) |->
                  IF s = "qld" THEN "qld_disaster_cap" ELSE "bom_rss_" \o s]

RECURSIVE MapSeq(_, _)
MapSeq(f, s) == IF s = <<>> THEN <<>> ELSE <<f[Head(s)]>> \o MapSeq(f, Tail(s))

sources_of(svc, bbox) ==
    IF svc = "traffic" THEN query_states(bbox)
    ELSE MapSeq(hazard_feed, states_for_bbox(bbox))

Warning(svc, source) == <<svc, source, "failed">>

\* One upstream answer: the request fails (raises or times out) or yields
\* features; for the QLD traffic provider also the answer of the per-feed
\* GeoJSON fallback that is tried when the v2 request fails.
Answers ==
    [ok : BOOLEAN, feats : SeqsUpTo(RawEvents, MaxFeed),
     fb_ok : BOOLEAN, fb_feats : SeqsUpTo(RawEvents, MaxFeed)]

Normal(a) ==
    /\ (~a.ok => a.feats = <<>>)
    /\ (~a.fb_ok => a.fb_feats = <<>>)

\* A mutant of source_step: the exception of a failed request is not caught.
source_step_uncaught(svc, source, bbox, a) ==
    IF a.ok
    THEN [items |-> events_of(svc, a.feats, bbox), warnings |-> <<>>,
          contacted |-> {source}, failed |-> {}, raised |-> FALSE]
    ELSE [items |-> <<>>, warnings |-> <<>>,
          contacted |-> {source}, failed |-> {source}, raised |-> TRUE]

\* One iteration of the fan-out loop: contact the source inside try/except.
\*   traffic, qld : _QldTrafficProvider.poll (v2 events, then the fallback feed)
\*   traffic, else: the provider's feed loop
\*   hazards      : one feed block of Hazards.poll
source_step(svc, source, bbox, a) ==
    IF svc = "traffic" /\ source = "qld"
    THEN IF a.ok
         THEN [items |-> events_of(svc, a.feats, bbox), warnings |-> <<>>,
               contacted |-> {"qld", "qld_v2"}, failed |-> {}, raised |-> FALSE]
         ELSE IF a.fb_ok
         THEN [items |-> events_of(svc, a.fb_feats, bbox),
               warnings |-> <<Warning(svc, "qld_v2")>>,
               contacted |-> {"qld", "qld_v2", "qld:incidents"},
               failed |-> {"qld_v2"}, raised |-> FALSE]
         ELSE [items |-> <<>>,
               warnings |-> <<Warning(svc, "qld_v2"), Warning(svc, "qld:incidents")>>,
               contacted |-> {"qld", "qld_v2", "qld:incidents"},
               failed |-> {"qld_v2", "qld:incidents"}, raised |-> FALSE]
    ELSE IF a.ok
         THEN [items |-> events_of(svc, a.feats, bbox), warnings |-> <<>>,
               contacted |-> {source}, failed |-> {}, raised |-> FALSE]
         ELSE [items |-> <<>>, warnings |-> <<Warning(svc, source)>>,
               contacted |-> {source}, failed |-> {source}, raised |-> FALSE]

\* "dedup[it.id] = it" over the collected items, then list(dedup.values()):
\* a dict keeps the position of the first insertion and the value of the last.
RECURSIVE dedup_into(_, _)
dedup_into(acc, items) ==
    IF items = <<>> THEN acc
    ELSE LET it == Head(items)
             hit == {j \in 1..Len(acc) : acc[j].id = it.id}
         IN  IF hit = {}
             THEN dedup_into(Append(acc, it), Tail(items))
             ELSE dedup_into([acc EXCEPT ![CHOOSE j \in hit : TRUE] = it], Tail(items))

dedup_by_id(items) == dedup_into(<<>>, items)

\* TrafficOverlay / HazardOverlay (the fields the claims speak about).
OverlayPack(bbox, created_at, items, warnings) ==
    [bbox |-> bbox, created_at |-> created_at, items |-> items, warnings |-> warnings]

\* get_traffic_pack / get_hazards_pack under the key of the request.  The key
\* hashes {bbox, algo_version, states}; the model keeps one row, the one of ovl.
get_overlay_pack == overlay_packs

IdlePoll ==
    [pc |-> "idle", cache_seconds |-> <<>>, idx |-> 0, items |-> <<>>,
     warnings |-> <<>>, contacted |-> {}, failed |-> {}, cached |-> FALSE,
     had_pack |-> <<>>, started |-> 0, at |-> 0, pack |-> <<>>]

\* Entry of Traffic.poll / Hazards.poll: key, cache lookup, freshness test,
\* and the "no states" pack.
PollStart(cache_seconds) ==
    /\ poll.pc \in {"idle", "done"}
    /\ LET max_age == max_age_of(cache_seconds)
           cached == get_overlay_pack
           srcs == sources_of(ovl.svc, ovl.bbox)
           begun == [IdlePoll EXCEPT !.cache_seconds = cache_seconds,
                                     !.had_pack = cached, !.started = now]
       IN  IF cached # <<>> /\ _is_fresh(cached[1].created_at, max_age)
           THEN /\ poll' = [begun EXCEPT !.pc = "done", !.cached = TRUE,
                                         !.at = now, !.pack = cached]
                /\ UNCHANGED overlay_packs
           ELSE IF srcs = <<>>
           THEN LET pack == OverlayPack(ovl.bbox, utc_now_iso, <<>>,
                                        <<<<ovl.svc, "no_states", "none">>>>)
                IN  /\ overlay_packs' = <<pack>>
                    /\ poll' = [begun EXCEPT !.pc = "done", !.at = now,
                                             !.pack = <<pack>>]
           ELSE /\ poll' = [begun EXCEPT !.pc = "fetch", !.idx = 1]
                /\ UNCHANGED overlay_packs
    /\ UNCHANGED <<now, ovl, corridorVars, placesVars, otherVars>>

\* One source of the fan-out answers; after the last one the pack is built,
\* stored under the key and returned.
FetchSource(a) ==
    /\ poll.pc = "fetch"
    /\ Normal(a)
    /\ LET srcs == sources_of(ovl.svc, ovl.bbox)
           r == source_step(ovl.svc, srcs[poll.idx], ovl.bbox, a)
           items == poll.items \o r.items
           warnings == poll.warnings \o r.warnings
           next == [poll EXCEPT !.items = items, !.warnings = warnings,
                                !.contacted = @ \cup r.contacted,
                                !.failed = @ \cup r.failed]
       IN  IF r.raised
           THEN /\ poll' = [next EXCEPT !.pc = "raised", !.at = now]
                /\ UNCHANGED overlay_packs
           ELSE IF poll.idx < Len(srcs)
           THEN /\ poll' = [next EXCEPT !.idx = @ + 1]
                /\ UNCHANGED overlay_packs
           ELSE LET pack == OverlayPack(ovl.bbox, utc_now_iso,
                                        dedup_by_id(items), warnings)
                IN  /\ overlay_packs' = <<pack>>
                    /\ poll' = [next EXCEPT !.pc = "done", !.at = now,
                                            !.pack = <<pack>>]
    /\ UNCHANGED <<now, ovl, corridorVars, placesVars, otherVars>>

\* The wall clock advances, also while a poll awaits a source.
Tick ==
    /\ now < MaxTime
    /\ now' = now + 1
    /\ UNCHANGED <<overlayVars, corridorVars, placesVars, otherVars>>

CacheSecondsArgs == {<<>>, <<0>>, <<1>>}

OverlayNext ==
    \/ \E cs \in CacheSecondsArgs : PollStart(cs)
    \/ \E a \in Answers : FetchSource(a)
    \/ Tick

(***************************************************************************)
(* Part II.  Corridor extractor.                                           *)
(*                                                                         *)
(* Positions are <<lat, lng>> in a local frame whose unit is the length of *)
(* one metre of latitude (1/111320 degree), so that buffer_m metres are    *)
(* buffer_m units of latitude.                                             *)
(***************************************************************************)

\* The largest edge id of the edge store.
MaxEdgeId == 4

\* _orjson_dumps with OPT_SORT_KEYS: the canonical text of a payload.  A
\* record is its own canonical form (field order carries no information).
_orjson_dumps(obj) == obj

\* sha256_b32: a digest, taken as collision-free.
sha256_b32(data) == <<"sha256", data>>

\* corridor_key(route_key, buffer_m, max_edges, profile, algo_version)
corridor_key(route_key, buffer_m, max_edges, profile, algo_version) ==
    sha256_b32(_orjson_dumps(
        [algo_version |-> algo_version, route_key |-> route_key,
         buffer_m |-> buffer_m, max_edges |-> max_edges, profile |-> profile]))

corridor_algo_version == "corridor.v1"

BufferArgs == {0, 400}
MaxEdgesArgs == {1, 2}
CorridorKeys ==
    {corridor_key("r1", b, m, "drive", corridor_algo_version) :
        b \in BufferArgs, m \in MaxEdgesArgs}

\* Route geometries (decoded point lists) a route_key can arrive with.
RouteShort == << <<0, 0>>, <<0, 1000>> >>
RouteLong == << <<0, 0>>, <<0, 2000>> >>
\* A geometry of one point, at the start of the edge that leaves the road.
RoutePoint == << <<0, 2400>> >>
RoutePolylines == {RouteShort, RouteLong, RoutePoint}

SetMin(S) == CHOOSE x \in S : \A y \in S : x <= y
SetMax(S) == CHOOSE x \in S : \A y \in S : x >= y

\* _bbox_from_poly6 (on the decoded points, <<lat, lng>> each)
_bbox_from_poly6(pts) ==
    IF pts = <<>> THEN BBox4(0, 0, 0, 0)
    ELSE LET lats == {pts[i][1] : i \in 1..Len(pts)}
             lngs == {pts[i][2] : i \in 1..Len(pts)}
         IN  BBox4(SetMin(lngs), SetMin(lats), SetMax(lngs), SetMax(lats))

\* cos(radians(mid_lat)) in permille; the routes of the model lie at the
\* latitude where it is 0.8 (36.87 S).
cos_permille(mid_lat) == 800

\* _bbox_expand(b, buffer_m)
_bbox_expand(b, buffer_m) ==
    LET dlat == buffer_m
        mid_lat == (b.minLat + b.maxLat) \div 2
        cosv == IF cos_permille(mid_lat) > 200 THEN cos_permille(mid_lat) ELSE 200
        dlng == (buffer_m * 1000) \div cosv
    IN  BBox4(b.minLng - dlng, b.minLat - dlat, b.maxLng + dlng, b.maxLat + dlat)

\* The rows the edge store can hold: edge_id, endpoints and attributes.
EdgeRow(edge_id, from_id, to_id, from_pos, to_pos, dist_m, toll) ==
    [edge_id |-> edge_id, from_id |-> from_id, to_id |-> to_id,
     from_lat |-> from_pos[1], from_lng |-> from_pos[2],
     to_lat |-> to_pos[1], to_lng |-> to_pos[2],
     dist_m |-> dist_m, cost_s |-> dist_m \div 20,
     toll |-> toll, ferry |-> 0, unsealed |-> 0]

EdgeRows ==
    [i \in 1..MaxEdgeId |->
        IF i = 1 THEN EdgeRow(1, 1, 2, <<0, 0>>, <<0, 1000>>, 1000, 0)
        ELSE IF i = 2 THEN EdgeRow(2, 2, 3, <<0, 1000>>, <<0, 2000>>, 1000, 1)
        ELSE IF i = 3 THEN EdgeRow(3, 3, 6, <<0, 2400>>, <<3000, 2403>>, 3000, 0)
        \* a second carriageway between the nodes of edge 1
        ELSE EdgeRow(i, 1, 2, <<0, 0>>, <<0, 1000>>, 1000 + i, 0)]

\* The WHERE clause of the rtree join.
rtree_intersects(e, bb) ==
    LET min_lng == IF e.from_lng < e.to_lng THEN e.from_lng ELSE e.to_lng
        max_lng == IF e.from_lng < e.to_lng THEN e.to_lng ELSE e.from_lng
        min_lat == IF e.from_lat < e.to_lat THEN e.from_lat ELSE e.to_lat
        max_lat == IF e.from_lat < e.to_lat THEN e.to_lat ELSE e.from_lat
    IN  /\ max_lng >= bb.minLng /\ min_lng <= bb.maxLng
        /\ max_lat >= bb.minLat /\ min_lat <= bb.maxLat

\* Sequences without repetition over a set.
Perms(S) == {q \in [1..Cardinality(S) -> S] : \A i, j \in 1..Cardinality(S) : q[i] = q[j] => i = j}

\* The possible results of the SELECT ... LIMIT max_edges: the query has no
\* ORDER BY, so any max_edges of the matching rows in any order.
edges_query(bb, max_edges) ==
    LET match == {i \in edges_db : rtree_intersects(EdgeRows[i], bb)}
        k == IF Cardinality(match) < max_edges THEN Cardinality(match) ELSE max_edges
    IN  UNION {Perms(T) : T \in {U \in SUBSET match : Cardinality(U) = k}}

\* node_coords: first coordinates seen per node id, in insertion order.
RECURSIVE node_coords(_, _)
node_coords(acc, rows) ==
    IF rows = <<>> THEN acc
    ELSE LET e == EdgeRows[Head(rows)]
             seen(a, id) == \E j \in 1..Len(a) : a[j].id = id
             a1 == IF seen(acc, e.from_id) THEN acc
                   ELSE Append(acc, [id |-> e.from_id, lat |-> e.from_lat, lng |-> e.from_lng])
             a2 == IF seen(a1, e.to_id) THEN a1
                   ELSE Append(a1, [id |-> e.to_id, lat |-> e.to_lat, lng |-> e.to_lng])
         IN  node_coords(a2, Tail(rows))

\* CorridorEdge of one row.
CorridorEdge(e) ==
    [a |-> e.from_id, b |-> e.to_id, distance_m |-> e.dist_m, duration_s |-> e.cost_s,
     flags |-> (IF e.toll = 1 THEN 1 ELSE 0) + (IF e.ferry = 1 THEN 2 ELSE 0)
               + (IF e.unsealed = 1 THEN 4 ELSE 0)]

CorridorGraphPack(ckey, route_key, profile, bbox, rows) ==
    [corridor_key |-> ckey, route_key |-> route_key, profile |-> profile,
     algo_version |-> corridor_algo_version, bbox |-> bbox,
     nodes |-> node_coords(<<>>, rows),
     edges |-> [i \in 1..Len(rows) |-> CorridorEdge(EdgeRows[rows[i]])]]

\* get_corridor_pack(conn, corridor_key)
get_corridor_pack(ckey) == corridor_packs[ckey]

\* A mutant of corridor_hit: the stored pack is never used.
corridor_hit_never(existing) == FALSE

\* "if existing:" in Corridor.ensure
corridor_hit(existing) == existing # <<>>

IdleEnsure ==
    [pc |-> "idle", route_polyline6 |-> <<>>, ckey |-> <<>>, before |-> <<>>,
     pack |-> <<>>, log |-> <<>>]

\* Corridor.ensure(route_key, route_polyline6, profile, buffer_m, max_edges)
Ensure(route_polyline6) ==
    LET ckey == corridor_key("r1", creq.buffer_m, creq.max_edges, "drive",
                             corridor_algo_version)
        existing == get_corridor_pack(ckey)
        corridor_bbox == _bbox_expand(_bbox_from_poly6(route_polyline6), creq.buffer_m)
    IN  /\ IF corridor_hit(existing)
           THEN /\ ensured' = [pc |-> "done", route_polyline6 |-> route_polyline6,
                               ckey |-> ckey, before |-> existing,
                               pack |-> existing[1],
                               log |-> <<"get_corridor_pack">>]
                /\ UNCHANGED corridor_packs
           ELSE \E rows \in edges_query(corridor_bbox, creq.max_edges) :
                   LET pack == CorridorGraphPack(ckey, "r1", "drive", corridor_bbox, rows)
                   IN  /\ corridor_packs' = [corridor_packs EXCEPT ![ckey] = <<pack>>]
                       /\ ensured' = [pc |-> "done", route_polyline6 |-> route_polyline6,
                                      ckey |-> ckey, before |-> existing,
                                      pack |-> pack,
                                      log |-> <<"get_corridor_pack", "edges_query",
                                                "put_corridor_pack">>]
        /\ UNCHANGED <<now, creq, edges_db, overlayVars, placesVars, otherVars>>

\* The edge store is rebuilt by data imports between requests: a row appears
\* or disappears.
EdgeStoreChange(i) ==
    /\ edges_db' = IF i \in edges_db THEN edges_db \ {i} ELSE edges_db \cup {i}
    /\ UNCHANGED <<now, creq, corridor_packs, ensured, overlayVars, placesVars,
                   otherVars>>

CorridorNext ==
    \/ \E p \in RoutePolylines : Ensure(p)
    \/ \E i \in 1..MaxEdgeId : EdgeStoreChange(i)

(***************************************************************************)
(* Part III.  POI engine.                                                  *)
(*                                                                         *)
(* Positions are <<lat, lng>> in the local frame of Part II (unit: one     *)
(* metre of latitude).  The routes and the places of the model lie on the  *)
(* meridian lng = 0, where the great-circle distance of two points is the  *)
(* difference of their latitudes.                                          *)
(***************************************************************************)

\* The largest osm id of the model's OSM elements.
MaxPlace == 3
\* An Overpass response holds at most MaxFetched elements.
MaxFetched == 2

Abs(x) == IF x < 0 THEN -x ELSE x

\* _haversine_m(a, b), for two points of one meridian.
_haversine_m(a, b) == Abs(a[1] - b[1])

\* float("inf")
Infinity == 1000000000

\* The early-exit distance of _min_distance_to_samples_m and the "last
\* sample" distance of _sample_polyline, 500.0 m.
near_m == 500

\* sample_interval_km as the HTTP layer passes it (8.0).
sample_interval_km == 8

\* The OSM elements of the model: osm id, position and inferred category.
OsmElement(osm_id, lat, category) ==
    [type |-> "node", id |-> osm_id, lat |-> lat, lon |-> 0, category |-> category]

OsmElements ==
    [i \in 1..MaxPlace |->
        IF i = 1 THEN OsmElement(1, 100, "fuel")
        ELSE IF i = 2 THEN OsmElement(2, 8400, "fuel")
        ELSE IF i = 3 THEN OsmElement(3, 4000, "camp")
        ELSE OsmElement(i, 4000 + 4000 * i, "fuel")]

\* _element_to_item: the PlaceItem of an Overpass element.
_element_to_item(el) ==
    [id |-> <<"osm", el.type, el.id>>, lat |-> el.lat, lng |-> el.lon,
     category |-> el.category]

\* The PlaceItem a row of places_items (or of the remote table) is read as.
row_to_item(osm_id) == _element_to_item(OsmElements[osm_id])

\* _parse_osm_identity(it.id, it.extra)[1]
osm_id_of(it) == it.id[3]

IdsOf(items) == {items[i].id : i \in 1..Len(items)}

\* _sample_polyline, the while loop of one segment: emit a sample at every
\* mark the segment crosses.
RECURSIVE sample_marks(_, _, _, _, _, _)
sample_marks(p0, p1, seg, dist_acc, next_mark, samples) ==
    IF dist_acc + seg >= next_mark
    THEN LET overshoot == next_mark - dist_acc
             lat == p0[1] + ((p1[1] - p0[1]) * overshoot) \div seg
             lng == p0[2] + ((p1[2] - p0[2]) * overshoot) \div seg
             interval_m == IF sample_interval_km * 1000 > 1000
                           THEN sample_interval_km * 1000 ELSE 1000
         IN  sample_marks(p0, p1, seg, dist_acc, next_mark + interval_m,
                          Append(samples, <<lat, lng>>))
    ELSE [samples |-> samples, next_mark |-> next_mark]

\* _sample_polyline, the loop over the segments.
RECURSIVE sample_walk(_, _, _, _, _)
sample_walk(pts, i, dist_acc, next_mark, samples) ==
    IF i > Len(pts) THEN [samples |-> samples, dist_acc |-> dist_acc]
    ELSE LET seg == _haversine_m(pts[i - 1], pts[i])
         IN  IF seg <= 0 THEN sample_walk(pts, i + 1, dist_acc, next_mark, samples)
             ELSE LET m == sample_marks(pts[i - 1], pts[i], seg, dist_acc,
                                        next_mark, samples)
                  IN  sample_walk(pts, i + 1, dist_acc + seg, m.next_mark, m.samples)

\* pts[0::step]
RECURSIVE every_nth(_, _, _)
every_nth(pts, j, step) ==
    IF j > Len(pts) THEN <<>> ELSE <<pts[j]>> \o every_nth(pts, j + step, step)

\* _sample_polyline(poly6, interval_km, include_endpoints=True), on the
\* decoded points.
_sample_polyline(pts) ==
    IF Len(pts) < 2 THEN <<>>
    ELSE LET interval_m == IF sample_interval_km * 1000 > 1000
                           THEN sample_interval_km * 1000 ELSE 1000
             w == sample_walk(pts, 2, 0, interval_m, <<pts[1]>>)
             last == pts[Len(pts)]
             s1 == IF _haversine_m(w.samples[Len(w.samples)], last) > near_m
                   THEN Append(w.samples, last) ELSE w.samples
             per_km == (w.dist_acc \div 1000) \div sample_interval_km
             expected_min == IF per_km - 1 > 2 THEN per_km - 1 ELSE 2
         IN  IF Len(s1) < expected_min /\ w.dist_acc > interval_m * 2
             THEN LET n_want == IF per_km + 2 > 2 THEN per_km + 2 ELSE 2
                      step == IF Len(pts) \div n_want > 1 THEN Len(pts) \div n_want ELSE 1
                      s2 == every_nth(pts, 1, step)
                  IN  IF _haversine_m(s2[Len(s2)], last) > near_m
                      THEN Append(s2, last) ELSE s2
             ELSE s1

\* _bbox_around_points(points, buffer_km), buffer_km given in metres.
_bbox_around_points(points, buffer_m) ==
    LET lats == {points[i][1] : i \in 1..Len(points)}
        lngs == {points[i][2] : i \in 1..Len(points)}
        center_lat == (SetMin(lats) + SetMax(lats)) \div 2
        cos_v == IF cos_permille(center_lat) > 200 THEN cos_permille(center_lat) ELSE 200
        buf_lng == (buffer_m * 1000) \div cos_v
    IN  BBox4(SetMin(lngs) - buf_lng, SetMin(lats) - buffer_m,
              SetMax(lngs) + buf_lng, SetMax(lats) + buffer_m)

\* _min_distance_to_samples_m(lat, lng, samples), with its early exit.
RECURSIVE min_distance_scan(_, _, _)
min_distance_scan(pos, samples, best) ==
    IF samples = <<>> THEN best
    ELSE LET d == _haversine_m(pos, Head(samples))
         IN  IF d < best
             THEN IF d < near_m THEN d
                  ELSE min_distance_scan(pos, Tail(samples), d)
             ELSE min_distance_scan(pos, Tail(samples), best)

_min_distance_to_samples_m(lat, lng, samples) ==
    min_distance_scan(<<lat, lng>>, samples, Infinity)

\* A mutant of in_seen_ids: no id is ever recognised.
in_seen_ids_never(it, items) == FALSE

\* "it.id in seen_ids"; seen_ids holds exactly the ids of the items appended
\* so far (every append is paired with seen_ids.add).
in_seen_ids(it, items) == it.id \in IdsOf(items)

\* A mutant of _accept: the distance test is dropped.
_accept_any_distance(it, items, samples, buffer_m) ==
    ~in_seen_ids(it, items)

\* _accept(it) of search_corridor_polyline
_accept(it, items, samples, buffer_m) ==
    IF in_seen_ids(it, items) THEN FALSE
    ELSE _min_distance_to_samples_m(it.lat, it.lng, samples) <= buffer_m

\* "for it in fetched: if _accept(it): ... if len(items) >= limit: break"
RECURSIVE accept_loop(_, _, _, _, _)
accept_loop(items, fetched, samples, buffer_m, limit) ==
    IF fetched = <<>> THEN items
    ELSE IF _accept(Head(fetched), items, samples, buffer_m)
         THEN LET items1 == Append(items, Head(fetched))
              IN  IF Len(items1) >= limit THEN items1
                  ELSE accept_loop(items1, Tail(fetched), samples, buffer_m, limit)
         ELSE accept_loop(items, Tail(fetched), samples, buffer_m, limit)

\* _norm_categories / the category clause of query_bbox.
category_matches(el, categories) ==
    categories = <<>> \/ el.category \in Range(categories)

in_bbox(el, bbox) ==
    /\ el.lat >= bbox.minLat /\ el.lat <= bbox.maxLat
    /\ el.lon >= bbox.minLng /\ el.lon <= bbox.maxLng

\* PlacesStore.query_bbox / SupaPlacesRepo.query_bbox over the rows `table`:
\* SELECT ... WHERE bbox AND category LIMIT max(1, limit), no ORDER BY; any
\* `limit` of the matching rows, in any order.
query_bbox(table, bbox, categories, limit) ==
    LET lim == IF limit > 1 THEN limit ELSE 1
        match == {i \in table : in_bbox(OsmElements[i], bbox)
                                /\ category_matches(OsmElements[i], categories)}
        k == IF Cardinality(match) < lim THEN Cardinality(match) ELSE lim
        picks == UNION {Perms(T) : T \in {U \in SUBSET match : Cardinality(U) = k}}
    IN  {[j \in 1..Len(q) |-> row_to_item(q[j])] : q \in picks}

\* PlacesStore.upsert_items / SupaPlacesRepo.upsert_items
upsert_items(table, items) == table \cup {osm_id_of(items[i]) : i \in 1..Len(items)}

\* hashlib.sha256(...).hexdigest(): a digest, taken as collision-free.
sha256_hex(data) == <<"sha256hex", data>>

places_algo_version == "places.v3.overpass_first"

\* _corridor_places_key(polyline6, buffer_km, categories, limit, algo_version);
\* sorted(categories) joined is the same for every order of the categories.
_corridor_places_key(polyline6, buffer_km, categories, limit, algo_version) ==
    sha256_hex(<<"CorridorPlaces/v1", sha256_hex(polyline6), buffer_km,
                 Range(categories), limit, algo_version>>)

\* places_key(req, algo_version)
places_key(req, algo_version) ==
    sha256_b32(_orjson_dumps([algo_version |-> algo_version, req |-> req]))

\* _overpass_filters_for_categories: one tag filter per category.
_overpass_filters_for_categories(cats) ==
    [i \in 1..Len(cats) |-> <<"filter", cats[i]>>]

\* The routes a corridor search can be asked for (decoded points).
PlacesRouteLong == << <<0, 0>>, <<20000, 0>> >>
PlacesRouteShort == << <<0, 0>>, <<400, 0>> >>
PlacesRoutePoint == << <<0, 0>> >>

\* The requests of the model.  buffer_km is written in metres (0.3 km and
\* 2 km); the HTTP layer always passes at least one category to a corridor
\* search.
CorridorRequest(polyline6, buffer_km, limit) ==
    [op |-> "corridor", polyline6 |-> polyline6, buffer_km |-> buffer_km,
     categories |-> <<"fuel", "camp">>, limit |-> limit]

CorridorRequests ==
    {CorridorRequest(PlacesRouteLong, b, l) : b \in {300, 2000}, l \in {1, 2}}
    \cup {CorridorRequest(PlacesRouteShort, 300, 2),
          CorridorRequest(PlacesRoutePoint, 2000, 2)}

SearchBBox == BBox4(-1000, -1000, 1000, 9000)

SearchRequests ==
    [op : {"search"}, bbox : {<<SearchBBox>>}, categories : {<<>>, <<"fuel">>},
     limit : {0, 2, 3}]
    \cup [op : {"search"}, bbox : {<<>>}, categories : {<<"fuel">>}, limit : {2}]

PlacesRequests == CorridorRequests \cup SearchRequests

key_of(req) ==
    IF req.op = "corridor"
    THEN _corridor_places_key(req.polyline6, req.buffer_km, req.categories,
                              req.limit, places_algo_version)
    ELSE places_key([bbox |-> req.bbox, categories |-> req.categories,
                     limit |-> req.limit], places_algo_version)

PlacesKeys == {key_of(r) : r \in PlacesRequests}

\* What the outside world does during one call: the answer of the Overpass
\* endpoint to each query of the call (a failure after the retries, or a list
\* of elements), and whether the remote POI store answers.
OverpassAnswers ==
    {[ok |-> FALSE, elements |-> <<>>]}
    \cup {[ok |-> TRUE, elements |-> q] : q \in SeqsUpTo(1..MaxPlace, MaxFetched)}

\* Answers nobody asks for are not enumerated: no Overpass answer for a call
\* that finds its pack stored, no remote outcome without a remote store.
Envs ==
    [overpass : IF places_packs[key_of(preq)] # <<>>
                THEN {[ok |-> FALSE, elements |-> <<>>]} ELSE OverpassAnswers,
     supa_ok : IF supa THEN BOOLEAN ELSE {TRUE}]

PlacesPack(pkey, items, provider) ==
    [places_key |-> pkey, items |-> items, provider |-> provider,
     created_at |-> utc_now_iso, algo_version |-> places_algo_version]

\* get_places_pack(conn, places_key)
get_places_pack(pkey) == places_packs[pkey]

\* A mutant of places_hit: a stored pack that no Overpass answer went into
\* is not used, so that the external query is tried again.
places_hit_if_overpass(cached) ==
    cached # <<>> /\ cached[1].provider \notin {"corridor", "corridor+supa"}

\* A mutant of places_hit: the pack cache is never used.
places_hit_never(cached) == FALSE

\* "if cached:" of search and search_corridor_polyline
places_hit(cached) == cached # <<>>

\* '"supa" not in (pack.provider or "")', negated
has_supa(provider) ==
    provider \in {"corridor+supa", "corridor+supa+overpass", "local+supa",
                  "local+supa+overpass"}

\* The working state of one call: the item list, the tables as the call has
\* left them so far, and the operations performed.
Work ==
    [items |-> <<>>, local |-> places_items, remote |-> supa_items,
     tiles |-> places_tile_state, log |-> <<>>, provider |-> "",
     used_overpass |-> FALSE, published |-> 0,
     local_count |-> 0, overpass_count |-> 0]

\* A mutant of _supa_upsert_best_effort: a failure of the remote store takes
\* the local upsert of the call with it.
_supa_upsert_undoing_local(w, items, env) ==
    IF ~supa \/ items = <<>> THEN w
    ELSE [w EXCEPT !.log = Append(@, "supa_upsert"),
                   !.local = IF env.supa_ok THEN @ ELSE places_items,
                   !.remote = IF env.supa_ok THEN upsert_items(@, items) ELSE @,
                   !.published = IF env.supa_ok THEN @ + Len(items) ELSE @]

\* Places._supa_upsert_best_effort(items, source)
_supa_upsert_best_effort(w, items, env) ==
    IF ~supa \/ items = <<>> THEN w
    ELSE [w EXCEPT !.log = Append(@, "supa_upsert"),
                   !.remote = IF env.supa_ok THEN upsert_items(@, items) ELSE @,
                   !.published = IF env.supa_ok THEN @ + Len(items) ELSE @]

\* Places._supa_ingest_best_effort(items)
_supa_ingest_best_effort(w, items) ==
    IF items = <<>> THEN w
    ELSE [w EXCEPT !.log = Append(@, "local_upsert"),
                   !.local = upsert_items(@, items)]

\* Places._finalize_and_cache_pack(pack, publish_to_supa): the working state
\* after the publication; the caller stores the pack.
_finalize_and_cache_pack(w, pack, publish_to_supa, env) ==
    LET w1 == IF publish_to_supa /\ supa /\ pack.items # <<>>
              THEN _supa_upsert_best_effort(w, pack.items, env) ELSE w
    IN  [w1 EXCEPT !.log = Append(@, "put_places_pack")]

IdleFound ==
    [pc |-> "idle", before |-> <<>>, pack |-> <<>>, log |-> <<>>,
     returned_at |-> "", local_count |-> 0, overpass_count |-> 0]

\* The end of a call that built `pack`: tables, pack row and result.
Built(w, pkey, cached, pack, returned_at) ==
    /\ places_items' = w.local
    /\ supa_items' = w.remote
    /\ places_tile_state' = w.tiles
    /\ places_packs' = [places_packs EXCEPT ![pkey] = <<pack>>]
    /\ found' = [pc |-> "done", before |-> cached, pack |-> <<pack>>, log |-> w.log,
                 returned_at |-> returned_at, local_count |-> w.local_count,
                 overpass_count |-> w.overpass_count]

\* The cache-hit branch of search and search_corridor_polyline: the stored
\* pack is returned; a pack not yet published is re-published (best effort).
ServedFromCache(cached, env) ==
    LET pack == cached[1]
        w0 == [Work EXCEPT !.log = <<"get_places_pack">>]
        w1 == IF supa /\ pack.items # <<>> /\ ~has_supa(pack.provider)
              THEN _supa_upsert_best_effort(w0, pack.items, env) ELSE w0
    IN  /\ supa_items' = w1.remote
        /\ found' = [pc |-> "done", before |-> cached, pack |-> cached, log |-> w1.log,
                     returned_at |-> "cache", local_count |-> 0, overpass_count |-> 0]
        /\ UNCHANGED <<places_items, places_tile_state, places_packs>>

\* A mutant of supplement_needed: the tiers are read even when the item
\* list is already full.
supplement_always(items, limit) == TRUE

\* "if len(items) < limit" before the local and the remote supplement
supplement_needed(items, limit) == Len(items) < limit

\* Step 2 of search_corridor_polyline: the Overpass around query.
corridor_overpass_step(w, env, samples, buffer_m) ==
    IF _overpass_filters_for_categories(preq.categories) # <<>> \/ preq.categories # <<>>
    THEN IF env.overpass.ok
         THEN LET els == env.overpass.elements
                  fetched == [i \in 1..Len(els) |-> _element_to_item(OsmElements[els[i]])]
                  w1 == [w EXCEPT !.log = Append(@, "overpass:ok")]
              IN  IF fetched # <<>>
                  THEN LET w2 == [w1 EXCEPT !.used_overpass = TRUE,
                                            !.log = Append(@, "local_upsert"),
                                            !.local = upsert_items(@, fetched)]
                           w3 == _supa_upsert_best_effort(w2, fetched, env)
                           items == accept_loop(w3.items, fetched, samples, buffer_m,
                                                preq.limit)
                       IN  [w3 EXCEPT !.items = items, !.overpass_count = Len(items)]
                  ELSE w1
         ELSE [w EXCEPT !.log = Append(@, "overpass:failed")]
    ELSE w

\* Step 3: the local supplement, loc being the answer of query_bbox.
corridor_local_step(w, loc, samples, buffer_m) ==
    IF supplement_needed(w.items, preq.limit)
    THEN [w EXCEPT !.log = Append(@, "local_query"),
                   !.items = accept_loop(@, loc, samples, buffer_m, preq.limit)]
    ELSE w

\* Step 4: the remote supplement, rem being the answer of the remote store.
corridor_supa_step(w, rem, env, samples, buffer_m) ==
    IF supa /\ supplement_needed(w.items, preq.limit)
    THEN LET w1 == [w EXCEPT !.log = Append(@, "supa_query")]
         IN  IF env.supa_ok /\ rem # <<>>
             THEN LET w2 == _supa_ingest_best_effort(w1, rem)
                  IN  [w2 EXCEPT !.items = accept_loop(@, rem, samples, buffer_m,
                                                       preq.limit),
                                 !.provider = "corridor+supa"]
             ELSE w1
    ELSE w

\* items[:limit]
Take(items, limit) ==
    IF limit >= Len(items) THEN items
    ELSE IF limit >= 0 THEN SubSeq(items, 1, limit)
    ELSE SubSeq(items, 1, IF Len(items) + limit > 0 THEN Len(items) + limit ELSE 0)

\* Places.search_corridor_polyline(polyline6, buffer_km, categories, limit,
\* sample_interval_km)
SearchCorridorPolyline(env) ==
    /\ preq.op = "corridor"
    /\ LET pkey == _corridor_places_key(preq.polyline6, preq.buffer_km,
                                        preq.categories, preq.limit,
                                        places_algo_version)
           cached == get_places_pack(pkey)
           samples == _sample_polyline(preq.polyline6)
           buffer_m == preq.buffer_km
           w0 == [Work EXCEPT !.log = <<"get_places_pack">>, !.provider = "corridor"]
       IN  IF places_hit(cached) THEN ServedFromCache(cached, env)
           ELSE IF samples = <<>>
           THEN LET pack == PlacesPack(pkey, <<>>, "corridor_empty")
                IN  Built(_finalize_and_cache_pack(w0, pack, FALSE, env), pkey, cached,
                          pack, "corridor_empty")
           ELSE LET corridor_bbox == _bbox_around_points(samples, buffer_m)
                    w1 == corridor_overpass_step(w0, env, samples, buffer_m)
                IN  \E loc \in query_bbox(w1.local, corridor_bbox, preq.categories,
                                          preq.limit * 2) :
                      LET w2 == corridor_local_step(w1, loc, samples, buffer_m)
                      IN  \E rem \in query_bbox(w2.remote, corridor_bbox,
                                                preq.categories, preq.limit * 2) :
                            LET w3 == corridor_supa_step(w2, rem, env, samples, buffer_m)
                                provider == IF w3.used_overpass
                                            THEN IF w3.provider = "corridor+supa"
                                                 THEN "corridor+supa+overpass"
                                                 ELSE "corridor+overpass"
                                            ELSE w3.provider
                                pack == PlacesPack(pkey, Take(w3.items, preq.limit),
                                                   provider)
                            IN  Built(_finalize_and_cache_pack(w3, pack, TRUE, env),
                                      pkey, cached, pack, "final")
    /\ UNCHANGED <<now, preq, supa, overlayVars, corridorVars, otherVars>>

\* settings.places_hard_cap, places_local_satisfy_ratio (in percent), the
\* default of "req.limit or 50", and the tile knobs.  One unit of the tile
\* step is a metre of latitude (0.15 degree); the ttl is in units of now.
places_hard_cap == 12000
places_local_satisfy_ratio == 70
default_limit == 50
places_tile_step_deg == 16698
places_max_tiles == 64
places_tile_ttl_s == 20160
places_time_budget_s == 10
places_max_overpass_tiles_per_req == 12

\* "limit = int(req.limit or 50); limit = max(1, min(limit, hard_cap))"
effective_limit(req_limit) ==
    LET l1 == IF req_limit = 0 THEN default_limit ELSE req_limit
        l2 == IF l1 < places_hard_cap THEN l1 ELSE places_hard_cap
    IN  IF l2 > 1 THEN l2 ELSE 1

\* A mutant of need_count: the local tier must fill the whole limit.
need_count_all(limit) == limit

\* "need_count = max(1, int(limit * min_ratio))"
need_count(limit) ==
    LET n == (limit * places_local_satisfy_ratio) \div 100
    IN  IF n > 1 THEN n ELSE 1

\* "for it in ...: if it.id in seen_ids: continue; ...; if len(items) >= limit: break"
RECURSIVE dedup_loop(_, _, _)
dedup_loop(items, incoming, limit) ==
    IF incoming = <<>> THEN items
    ELSE IF in_seen_ids(Head(incoming), items)
         THEN dedup_loop(items, Tail(incoming), limit)
         ELSE LET items1 == Append(items, Head(incoming))
              IN  IF Len(items1) >= limit THEN items1
                  ELSE dedup_loop(items1, Tail(incoming), limit)

\* _tile_key(step_deg, b)
_tile_key(step_deg, b) == <<"tile", step_deg, b.minLat, b.minLng, b.maxLat, b.maxLng>>

\* _iter_tiles(b, step_deg, max_tiles): row by row from the south-west corner.
RECURSIVE _iter_tiles(_, _, _, _, _, _)
_iter_tiles(b, step_deg, max_tiles, lat, lng, tiles) ==
    IF ~(lat < b.maxLat) \/ Len(tiles) >= max_tiles THEN tiles
    ELSE IF ~(lng < b.maxLng)
    THEN _iter_tiles(b, step_deg, max_tiles,
                     IF b.maxLat < lat + step_deg THEN b.maxLat ELSE lat + step_deg,
                     b.minLng, tiles)
    ELSE LET lat2 == IF b.maxLat < lat + step_deg THEN b.maxLat ELSE lat + step_deg
             lng2 == IF b.maxLng < lng + step_deg THEN b.maxLng ELSE lng + step_deg
         IN  _iter_tiles(b, step_deg, max_tiles, lat, lng2,
                         Append(tiles, BBox4(lng, lat, lng2, lat2)))

\* PlacesStore.tiles_for_bbox(bbox, step_deg, max_tiles)
tiles_for_bbox(bbox, step_deg, max_tiles) ==
    LET tiles == _iter_tiles(bbox, step_deg, max_tiles, bbox.minLat, bbox.minLng, <<>>)
    IN  [i \in 1..Len(tiles) |-> <<_tile_key(step_deg, tiles[i]), tiles[i]>>]

TileKeys ==
    {t[1] : t \in Range(tiles_for_bbox(SearchBBox, places_tile_step_deg, places_max_tiles))}

\* A mutant of tile_is_fresh: a ledger row of any age makes the tile fresh.
tile_is_fresh_any_age(tiles, tile_key, ttl_s) ==
    IF ttl_s <= 0 THEN FALSE ELSE tiles[tile_key] # <<>>

\* PlacesStore.tile_is_fresh(tile_key, ttl_s) against the ledger `tiles`.
tile_is_fresh(tiles, tile_key, ttl_s) ==
    IF ttl_s <= 0 THEN FALSE
    ELSE IF tiles[tile_key] = <<>> THEN FALSE
    ELSE LET ts == _parse_iso_to_epoch(tiles[tile_key][1])
         IN  IF ts = <<>> THEN FALSE ELSE (now - ts[1]) <= ttl_s

\* The tile loop of Places.search.  The call is one step of the model, so no
\* time passes between `started` and the budget test.  An Overpass failure
\* raises out of the loop into the enclosing try/except.
RECURSIVE tile_loop(_, _, _, _, _, _)
tile_loop(w, tiles, k, tiles_fetched, limit, env) ==
    IF k > Len(tiles) THEN w
    ELSE IF Len(w.items) >= limit THEN w
    ELSE IF 0 >= places_time_budget_s /\ tiles_fetched > 0 THEN w
    ELSE IF tile_is_fresh(w.tiles, tiles[k][1], places_tile_ttl_s)
    THEN tile_loop(w, tiles, k + 1, tiles_fetched, limit, env)
    ELSE IF ~env.overpass.ok THEN [w EXCEPT !.log = Append(@, "overpass:failed")]
    ELSE LET els == env.overpass.elements
             fetched == [i \in 1..Len(els) |-> _element_to_item(OsmElements[els[i]])]
             w1 == [w EXCEPT !.log = Append(@, "overpass:ok")]
             w2 == IF fetched # <<>>
                   THEN _supa_upsert_best_effort(
                            [w1 EXCEPT !.used_overpass = TRUE,
                                       !.log = Append(@, "local_upsert"),
                                       !.local = upsert_items(@, fetched)],
                            fetched, env)
                   ELSE w1
             w3 == [w2 EXCEPT !.log = Append(@, "mark_tile_fetched"),
                              !.tiles = [@ EXCEPT ![tiles[k][1]] = <<utc_now_iso>>],
                              !.items = dedup_loop(@, fetched, limit)]
         IN  IF tiles_fetched + 1 >= places_max_overpass_tiles_per_req THEN w3
             ELSE tile_loop(w3, tiles, k + 1, tiles_fetched + 1, limit, env)

\* Places.search(req)
Search(env) ==
    /\ preq.op = "search"
    /\ LET pkey == places_key([bbox |-> preq.bbox, categories |-> preq.categories,
                               limit |-> preq.limit], places_algo_version)
           cached == get_places_pack(pkey)
           w0 == [Work EXCEPT !.log = <<"get_places_pack">>, !.provider = "local"]
           limit == effective_limit(preq.limit)
           cats == preq.categories
       IN  IF places_hit(cached) THEN ServedFromCache(cached, env)
           ELSE IF preq.bbox = <<>>
           THEN LET pack == PlacesPack(pkey, <<>>, "local")
                IN  Built(_finalize_and_cache_pack(w0, pack, FALSE, env), pkey, cached,
                          pack, "no_bbox")
           ELSE LET bbox == preq.bbox[1] IN
             \E loc \in query_bbox(places_items, bbox, cats, limit) :
               LET items1 == dedup_loop(<<>>, loc, limit)
                   w1 == [w0 EXCEPT !.log = Append(@, "local_query"), !.items = items1,
                                    !.local_count = Len(items1)]
               IN  IF Len(w1.items) >= need_count(limit)
                   THEN LET pack == PlacesPack(pkey, Take(w1.items, limit), "local")
                        IN  Built(_finalize_and_cache_pack(w1, pack, TRUE, env), pkey,
                                  cached, pack, "local")
                   ELSE \E rem \in query_bbox(supa_items, bbox, cats, limit) :
                     LET w2 == IF ~supa THEN w1
                               ELSE IF env.supa_ok /\ rem # <<>>
                               THEN LET wi == _supa_ingest_best_effort(
                                                 [w1 EXCEPT !.log = Append(@, "supa_query")],
                                                 rem)
                                    IN  [wi EXCEPT !.items = dedup_loop(@, rem, limit),
                                                   !.provider = "local+supa"]
                               ELSE [w1 EXCEPT !.log = Append(@, "supa_query")]
                         filters == _overpass_filters_for_categories(cats)
                     IN  IF Len(w2.items) >= need_count(limit)
                         THEN LET pack == PlacesPack(pkey, Take(w2.items, limit), w2.provider)
                              IN  Built(_finalize_and_cache_pack(
                                            w2, pack, ~has_supa(w2.provider), env),
                                        pkey, cached, pack, "supa")
                         ELSE IF filters = <<>>
                         THEN LET pack == PlacesPack(pkey, Take(w2.items, limit), w2.provider)
                              IN  Built(_finalize_and_cache_pack(
                                            w2, pack, ~has_supa(w2.provider), env),
                                        pkey, cached, pack, "no_filters")
                         ELSE LET tiles == tiles_for_bbox(bbox, places_tile_step_deg,
                                                          places_max_tiles)
                                  w3 == tile_loop(w2, tiles, 1, 0, limit, env)
                                  p1 == IF w3.used_overpass
                                        THEN IF w3.provider = "local+supa"
                                             THEN "local+supa+overpass"
                                             ELSE "local+overpass"
                                        ELSE w3.provider
                                  final_provider ==
                                        IF w3.used_overpass /\ supa /\ w3.published > 0
                                           /\ ~has_supa(p1)
                                        THEN "local+supa+overpass" ELSE p1
                                  pack == PlacesPack(pkey, Take(w3.items, limit),
                                                     final_provider)
                              IN  Built(_finalize_and_cache_pack(w3, pack, TRUE, env),
                                        pkey, cached, pack, "final")
    /\ UNCHANGED <<now, preq, supa, overlayVars, corridorVars, otherVars>>

\* Another request discovers an element and stores it in the local table.
LocalDiscovery(i) ==
    /\ i \notin places_items
    /\ places_items' = places_items \cup {i}
    /\ UNCHANGED <<now, preq, supa, supa_items, places_tile_state, places_packs,
                   found, overlayVars, corridorVars, otherVars>>

(***************************************************************************)
(* Part IV.  Offline bundle (app/services/bundle.py, app/core/storage.py). *)
(*                                                                         *)
(* The plan under study refers to one key per pack table.  A row of a pack *)
(* table is represented by length(pack_json), the only property of the     *)
(* payload Bundle depends on.                                              *)
(***************************************************************************)
\* A stored pack_json blob is 1..MaxBytes long.
MaxBytes == 2

PackTables ==
    {"nav_packs", "corridor_packs", "places_packs", "traffic_packs", "hazard_packs"}

PlanIds == {"p1"}

\* The key under which each table holds its row.
StoredKey ==
    [nav_packs |-> "r1", corridor_packs |-> "ck1", places_packs |-> "pk1",
     traffic_packs |-> "tk1", hazard_packs |-> "hk1"]

\* "SELECT length(pack_json) FROM <table> WHERE <key>=?": the row, or <<>>.
select_length(table, key) ==
    IF key = StoredKey[table] THEN pack_json_len[table] ELSE <<>>

\* A mutant of _len_or_zero: every length is reported as 0.
_len_always_zero(row) == 0

\* _len_or_zero(row)
_len_or_zero(row) == IF row # <<>> THEN row[1] ELSE 0

\* get_nav_pack_bytes(conn, route_key)
get_nav_pack_bytes(route_key) == _len_or_zero(select_length("nav_packs", route_key))

\* get_corridor_pack_bytes, get_places_pack_bytes, get_traffic_pack_bytes,
\* get_hazards_pack_bytes (conn, key): 0 for a key that is None.
get_pack_bytes(table, key) ==
    IF key = <<>> THEN 0 ELSE _len_or_zero(select_length(table, key[1]))

\* A mutant of get_pack_row: a row is found under every key.
get_pack_row_any(table, key) == <<1>>

\* get_nav_pack, get_corridor_pack, ... as Bundle.build_zip uses them: the
\* row under the key, or None.
get_pack_row(table, key) == select_length(table, key)

\* "ready" if <asset>_ready else "missing"
status_of(ready) == IF ready THEN "ready" ELSE "missing"

\* The keyword arguments of Bundle.build_manifest.
ManifestArgs(navpack_ready, corridor, places, traffic, hazards) ==
    [plan_id |-> "p1", route_key |-> "r1", styles |-> <<>>,
     navpack_ready |-> navpack_ready,
     corridor_key |-> corridor[1], corridor_ready |-> corridor[2],
     places_key |-> places[1], places_ready |-> places[2],
     traffic_key |-> traffic[1], traffic_ready |-> traffic[2],
     hazards_key |-> hazards[1], hazards_ready |-> hazards[2]]

\* The call POST /bundle/build makes: every asset ready under its key.
FullCall ==
    ManifestArgs(TRUE, << <<"ck1">>, TRUE >>, << <<"pk1">>, TRUE >>,
                 << <<"tk1">>, TRUE >>, << <<"hk1">>, TRUE >>)

\* The calls the model makes: the full call and those that deviate from it
\* in one asset (left out, marked ready without a key, or announced with
\* its key as not ready).
BuildArgs ==
    LET all == {ManifestArgs(n, c, p, t, h) :
                    n \in BOOLEAN,
                    c \in {<< <<"ck1">>, TRUE >>, << <<>>, TRUE >>, << <<>>, FALSE >>},
                    p \in {<< <<"pk1">>, TRUE >>, << <<>>, FALSE >>},
                    t \in {<< <<"tk1">>, TRUE >>, << <<"tk1">>, FALSE >>},
                    h \in {<< <<"hk1">>, TRUE >>, << <<>>, FALSE >>}}
        deviations(a) ==
            Cardinality({f \in {"navpack_ready", "corridor_key", "corridor_ready",
                                "places_key", "traffic_ready", "hazards_key"} :
                            a[f] # FullCall[f]})
    IN  {a \in all : deviations(a) <= 1}

\* Were the manifest m and the call a made with the same arguments?
same_inputs(m, a) ==
    /\ m.plan_id = a.plan_id /\ m.route_key = a.route_key /\ m.styles = a.styles
    /\ m.navpack_status = status_of(a.navpack_ready)
    /\ m.corridor_status = status_of(a.corridor_ready)
    /\ m.places_status = status_of(a.places_ready)
    /\ m.traffic_status = status_of(a.traffic_ready)
    /\ m.hazards_status = status_of(a.hazards_ready)
    /\ m.corridor_key = a.corridor_key /\ m.places_key = a.places_key
    /\ m.traffic_key = a.traffic_key /\ m.hazards_key = a.hazards_key

\* Bundle.build_manifest: the manifest it builds.
build_manifest(a) ==
    LET bytes_nav == IF a.navpack_ready THEN get_nav_pack_bytes(a.route_key) ELSE 0
        bytes_corr == IF a.corridor_ready /\ a.corridor_key # <<>>
                      THEN get_pack_bytes("corridor_packs", a.corridor_key) ELSE 0
        bytes_places == IF a.places_ready /\ a.places_key # <<>>
                        THEN get_pack_bytes("places_packs", a.places_key) ELSE 0
        bytes_traffic == IF a.traffic_ready /\ a.traffic_key # <<>>
                         THEN get_pack_bytes("traffic_packs", a.traffic_key) ELSE 0
        bytes_hazards == IF a.hazards_ready /\ a.hazards_key # <<>>
                         THEN get_pack_bytes("hazard_packs", a.hazards_key) ELSE 0
    IN  [plan_id |-> a.plan_id, route_key |-> a.route_key, styles |-> a.styles,
         navpack_status |-> status_of(a.navpack_ready),
         corridor_status |-> status_of(a.corridor_ready),
         places_status |-> status_of(a.places_ready),
         traffic_status |-> status_of(a.traffic_ready),
         hazards_status |-> status_of(a.hazards_ready),
         corridor_key |-> a.corridor_key, places_key |-> a.places_key,
         traffic_key |-> a.traffic_key, hazards_key |-> a.hazards_key,
         bytes_total |-> bytes_nav + bytes_corr + bytes_places + bytes_traffic
                         + bytes_hazards,
         created_at |-> utc_now_iso]

\* get_manifest(conn, plan_id)
get_manifest(plan_id) == manifests[plan_id]

\* "if not nav_row:", "if not corr_row:", ... in Bundle.build_zip
missing_row(row) == row = <<>>

\* not_found(code, message): HTTP 404 with the code, and no archive.
not_found(code) == [error |-> <<code>>, archive |-> <<>>]

\* The optional members of the archive: the pack when the manifest has the
\* key, or None.
optional_member(table, key) == IF key = <<>> THEN <<>> ELSE get_pack_row(table, key[1])

\* Bundle.build_zip: the checks in the order of the code, then the archive
\* (its members, each by its content).
build_zip(plan_id) ==
    LET manifest_row == get_manifest(plan_id)
    IN  IF missing_row(manifest_row) THEN not_found("bundle_missing")
        ELSE
        LET manifest == manifest_row[1]
            nav_row == get_pack_row("nav_packs", manifest.route_key)
            places == optional_member("places_packs", manifest.places_key)
            traffic == optional_member("traffic_packs", manifest.traffic_key)
            hazards == optional_member("hazard_packs", manifest.hazards_key)
        IN  IF missing_row(nav_row) THEN not_found("navpack_missing")
            ELSE IF manifest.corridor_key = <<>> THEN not_found("corridor_missing")
            ELSE IF missing_row(get_pack_row("corridor_packs", manifest.corridor_key[1]))
                 THEN not_found("corridor_missing")
            ELSE IF manifest.places_key # <<>> /\ missing_row(places)
                 THEN not_found("places_missing")
            ELSE IF manifest.traffic_key # <<>> /\ missing_row(traffic)
                 THEN not_found("traffic_missing")
            ELSE IF manifest.hazards_key # <<>> /\ missing_row(hazards)
                 THEN not_found("hazards_missing")
            ELSE [error |-> <<>>,
                  archive |-> <<[manifest |-> manifest,
                                 navpack |-> nav_row,
                                 corridor |-> get_pack_row("corridor_packs",
                                                           manifest.corridor_key[1]),
                                 places |-> places,
                                 traffic |-> traffic,
                                 hazards |-> hazards]>>]

IdleBundle ==
    [op |-> "idle", args |-> <<>>, previous |-> <<>>, undisturbed |-> FALSE,
     manifest |-> <<>>, error |-> <<>>, archive |-> <<>>]

\* Bundle.build_manifest(...): builds the manifest, persists it under
\* plan_id with INSERT OR REPLACE and returns it.
BuildManifest(a) ==
    LET m == build_manifest(a)
        stored == get_manifest(a.plan_id)
        \* what the previous call with these arguments persisted, if the
        \* plan's manifest comes from such a call
        previous == IF stored # <<>> /\ same_inputs(stored[1], a) THEN stored ELSE <<>>
    IN  /\ manifests' = [manifests EXCEPT ![a.plan_id] = <<m>>]
        /\ touched' = FALSE
        /\ bundled' = [IdleBundle EXCEPT !.op = "build_manifest", !.args = <<a>>,
                                         !.previous = previous,
                                         !.undisturbed = ~touched,
                                         !.manifest = <<m>>]
        /\ UNCHANGED <<now, pack_json_len, overlayVars, corridorVars, placesVars,
                       versionVars, laterVars>>

\* Bundle.build_zip(plan_id)
BuildZip(plan_id) ==
    LET r == build_zip(plan_id)
    IN  /\ bundled' = [IdleBundle EXCEPT !.op = "build_zip", !.error = r.error,
                                         !.archive = r.archive]
        /\ UNCHANGED <<now, pack_json_len, manifests, touched, overlayVars,
                       corridorVars, placesVars, versionVars, laterVars>>

\* put_nav_pack, put_corridor_pack, put_places_pack, put_traffic_pack,
\* put_hazards_pack: a service stores a pack of n bytes under the key, by
\* INSERT OR REPLACE.
PutPack(table, n) ==
    /\ pack_json_len' = [pack_json_len EXCEPT ![table] = <<n>>]
    /\ touched' = TRUE
    /\ bundled' = IdleBundle
    /\ UNCHANGED <<now, manifests, overlayVars, corridorVars, placesVars,
                   versionVars, laterVars>>

BundleNext ==
    \/ \E a \in BuildArgs : BuildManifest(a)
    \/ \E p \in PlanIds : BuildZip(p)
    \/ \E t \in PackTables, n \in 1..MaxBytes : PutPack(t, n)

(***************************************************************************)
(* Part V.  Versioned pack keys.                                           *)
(*                                                                         *)
(* The key derivation and the pack-cache lookup with which Corridor.ensure,*)
(* Places.search, Places.search_corridor_polyline, Traffic.poll and        *)
(* Hazards.poll begin, over deployments that change the service's          *)
(* algo_version setting.                                                   *)
(***************************************************************************)
\* The releases deployed one after the other: 1..MaxRelease.
MaxRelease == 2

Services == {"corridor", "places", "corridor_places", "traffic", "hazards"}

\* settings.corridor_algo_version, settings.places_algo_version,
\* settings.traffic_algo_version, settings.hazards_algo_version as release n
\* configures them.
algo_version_at(svc, n) == <<svc, "v", n>>

\* A mutant of _stable_key: only the bbox of the payload is hashed.
_stable_key_of_bbox(prefix, obj) == sha256_b32(<<prefix, "::", obj.bbox>>)

\* _stable_key(prefix, obj): sha256 of prefix + "::" + json.dumps(obj,
\* sort_keys=True), urlsafe base64.
_stable_key(prefix, obj) == sha256_b32(<<prefix, "::", obj>>)

\* Hazards.poll: active_states (ACT is covered by NSW), sorted.
hazards_active_states(bbox) ==
    LET active == states_for_bbox(bbox)
        WithNsw(s) == s \in Range(active) \cup {"nsw"}
    IN  IF "act" \in Range(active) /\ "nsw" \notin Range(active)
        THEN SelectSeq(StateOrder, WithNsw) ELSE active

\* The key each service derives for a request when it runs algo_version.
key_for(svc, req, algo_version) ==
    CASE svc = "corridor" ->
             corridor_key("r1", req.buffer_m, req.max_edges, "drive", algo_version)
      [] svc = "places" ->
             places_key([bbox |-> req.bbox, categories |-> req.categories,
                         limit |-> req.limit], algo_version)
      [] svc = "corridor_places" ->
             _corridor_places_key(req.polyline6, req.buffer_km, req.categories,
                                  req.limit, algo_version)
      [] svc = "traffic" ->
             _stable_key("traffic", [bbox |-> req, algo_version |-> algo_version,
                                     states |-> query_states(req)])
      [] svc = "hazards" ->
             _stable_key("hazards", [bbox |-> req, states |-> hazards_active_states(req),
                                     algo_version |-> algo_version])

\* Two requests per service.
RequestsOf(svc) ==
    CASE svc = "corridor" -> [buffer_m : BufferArgs, max_edges : {1}]
      [] svc = "places" ->
             [op : {"search"}, bbox : {<<SearchBBox>>}, categories : {<<"fuel">>},
              limit : {2, 3}]
      [] svc = "corridor_places" ->
             {CorridorRequest(PlacesRouteLong, 300, l) : l \in {1, 2}}
      [] svc \in {"traffic", "hazards"} -> {NarrowBBox, WideBBox}

\* get_corridor_pack / get_places_pack / get_traffic_pack / get_hazards_pack
\* on the table of the service under study.
get_versioned_pack(key) ==
    IF \E row \in version_packs : row.key = key
    THEN <<(CHOOSE row \in version_packs : row.key = key).pack>>
    ELSE <<>>

\* put_*_pack: INSERT OR REPLACE under the key.
put_versioned_pack(key, pack) ==
    {row \in version_packs : row.key # key} \cup {[key |-> key, pack |-> pack]}

IdleServed == [op |-> "idle", req |-> <<>>, hit |-> FALSE, pack |-> <<>>]

\* One call of the service under study: derive the key, return the stored
\* pack if there is one (for an overlay: if it is fresh), else derive the
\* pack, store it under the key and return it.
Serve(req) ==
    LET algo_version == algo_version_at(deployed.svc, deployed.release)
        key == key_for(deployed.svc, req, algo_version)
        cached == get_versioned_pack(key)
        usable == /\ cached # <<>>
                  /\ deployed.svc \in {"traffic", "hazards"}
                        => _is_fresh(cached[1].created_at, overlays_cache_seconds)
        pack == [key |-> key, req |-> req, algo_version |-> algo_version,
                 created_at |-> utc_now_iso]
    IN  /\ IF usable
           THEN /\ served' = [op |-> "done", req |-> <<req>>, hit |-> TRUE,
                              pack |-> cached]
                /\ UNCHANGED version_packs
           ELSE /\ version_packs' = put_versioned_pack(key, pack)
                /\ served' = [op |-> "done", req |-> <<req>>, hit |-> FALSE,
                              pack |-> <<pack>>]
        /\ UNCHANGED <<now, deployed, overlayVars, corridorVars, placesVars,
                       bundleVars, laterVars>>

\* A deployment changes the algo_version setting of the service.
Deploy ==
    /\ deployed.release < MaxRelease
    /\ deployed' = [deployed EXCEPT !.release = @ + 1]
    /\ served' = IdleServed
    /\ UNCHANGED <<now, version_packs, overlayVars, corridorVars, placesVars,
                   bundleVars, laterVars>>

VersionsNext ==
    \/ \E req \in RequestsOf(deployed.svc) : Serve(req)
    \/ Deploy

(***************************************************************************)
(* Part VI.  Route keys and nav packs (app/core/keying.py,                 *)
(* app/services/routing.py, app/api/nav.py).                               *)
(*                                                                         *)
(* A request is the dict the code reads: an absent or None entry is <<>>.  *)
(* Stop coordinates are integers in units of 1e-7 degree.                  *)
(***************************************************************************)
\* round(x, 6): the coordinate in units of 1e-6 degree.  No coordinate of
\* the model lies halfway between two such values.
round6(x) == (x + 5) \div 10

\* One entry of req["stops"]; extra is a field the contract does not know.
TripStop(id, type, name, lat, lng, extra) ==
    [id |-> id, type |-> type, name |-> name, lat |-> lat, lng |-> lng,
     extra |-> extra]

\* The first stop of the model's requests: with or without id, type, name
\* and unknown field, at coordinates that round to -27.470000 (three of them)
\* or to -27.470001.
FirstStops ==
    {TripStop(id, type, name, lat, 1530200000, extra) :
        id \in {<<>>, <<"s1">>},
        type \in {<<>>, <<"poi">>, <<"start">>},
        name \in {<<>>, <<"Home">>},
        lat \in {-274700004, -274700000, -274699996, -274700006},
        extra \in {<<>>}}
    \cup {TripStop(<<>>, <<>>, <<>>, -274700000, 1530200000, <<"x">>)}

LastStop == TripStop(<<"s2">>, <<"end">>, <<>>, -275600000, 1519500000, <<>>)

\* The NavRequest-like dicts of the model: one or two stops.
NavRequest(stops) ==
    [profile |-> <<"drive">>, prefs |-> <<>>, stops |-> stops, avoid |-> <<>>,
     depart_at |-> <<>>]

NavRequests ==
    {NavRequest(<<s, LastStop>>) : s \in FirstStops}
    \cup {NavRequest(<<LastStop>>),
          [NavRequest(<<LastStop, LastStop>>) EXCEPT !.profile = <<>>]}

\* The dict normalize_nav_request builds for one stop.
normalize_stop(s) ==
    [id |-> s.id,
     type |-> IF s.type = <<>> THEN "poi" ELSE s.type[1],
     lat |-> round6(s.lat),
     lng |-> round6(s.lng),
     name |-> s.name]

\* normalize_nav_request(req): <<>> stands for the ValueError it raises.
normalize_nav_request(req) ==
    IF Len(req.stops) < 2 THEN <<>>
    ELSE <<[profile |-> IF req.profile = <<>> THEN "drive" ELSE req.profile[1],
            prefs |-> IF req.prefs = <<>> THEN "{}" ELSE req.prefs[1],
            stops |-> [i \in 1..Len(req.stops) |-> normalize_stop(req.stops[i])],
            avoid |-> IF req.avoid = <<>> THEN "[]" ELSE req.avoid[1],
            depart_at |-> req.depart_at]>>

\* route_key_from_request(req, algo_version): the key, or <<>> when
\* normalize_nav_request raises.
route_key_from_request(req, algo_version) ==
    LET norm == normalize_nav_request(req)
    IN  IF norm = <<>> THEN <<>>
        ELSE <<sha256_b32(_orjson_dumps([algo_version |-> algo_version,
                                         req |-> norm[1]]))>>

\* settings.algo_version
nav_algo_version == "navpack.v1.osrm.mld"

\* The keys of two requests are computed.
KeyRequests ==
    /\ keyed.pc = "idle"
    /\ keyed' = [keyed EXCEPT !.pc = "done",
                              !.key_a = route_key_from_request(keyed.a, nav_algo_version),
                              !.key_b = route_key_from_request(keyed.b, nav_algo_version)]
    /\ UNCHANGED <<now, overlayVars, corridorVars, placesVars, bundleVars,
                   versionVars, navVars, cap, poly,
                   moreVars>>

IdleKeyed ==
    [pc |-> "idle", a |-> NavRequest(<<>>), b |-> NavRequest(<<>>),
     key_a |-> <<>>, key_b |-> <<>>]

\* NavRequest.model_dump(): the validated request; pydantic has dropped the
\* unknown fields and filled in the defaults of the contract.
model_dump(req) ==
    [profile |-> IF req.profile = <<>> THEN <<"drive">> ELSE req.profile,
     prefs |-> req.prefs, avoid |-> req.avoid, depart_at |-> req.depart_at,
     stops |-> [i \in 1..Len(req.stops) |->
                   [req.stops[i] EXCEPT !.type = IF @ = <<>> THEN <<"poi">> ELSE @,
                                        !.extra = <<>>]]]

\* What the routing engine does with one request: it cannot be reached, it
\* answers with an error status, with no route, or with a route geometry.
OsrmAnswers ==
    {[status |-> "unreachable", geometry |-> ""], [status |-> "500", geometry |-> ""],
     [status |-> "200", geometry |-> ""], [status |-> "200", geometry |-> "g1"],
     [status |-> "200", geometry |-> "g2"]}

\* Routing.route(req): the NavPack, or the error it raises.
route(req, osrm) ==
    IF Len(req.stops) < 2 THEN [error |-> <<"bad_nav_request">>, pack |-> <<>>]
    ELSE IF osrm.status = "unreachable"
         THEN [error |-> <<"osrm_unreachable">>, pack |-> <<>>]
    ELSE IF osrm.status # "200" THEN [error |-> <<"osrm_error">>, pack |-> <<>>]
    ELSE IF osrm.geometry = "" THEN [error |-> <<"osrm_no_routes">>, pack |-> <<>>]
    ELSE [error |-> <<>>,
          pack |-> <<[req |-> req,
                      primary |->
                          [route_key |-> route_key_from_request(model_dump(req),
                                                                nav_algo_version)[1],
                           geometry |-> osrm.geometry,
                           created_at |-> utc_now_iso,
                           algo_version |-> nav_algo_version]]>>]

\* put_nav_pack: INSERT OR REPLACE INTO nav_packs under route_key.
put_nav_pack(route_key, pack) ==
    {row \in nav_packs : row.route_key # route_key}
    \cup {[route_key |-> route_key, pack |-> pack]}

IdleRouted == [op |-> "idle", error |-> <<>>, pack |-> <<>>]

\* The requests POST /nav/route receives in the model: the same trip with and
\* without a stop name, and a request of one stop.
NavRouteRequests ==
    {NavRequest(<<TripStop(<<"s1">>, <<"start">>, n, -274700000, 1530200000, <<>>),
                  LastStop>>) : n \in {<<>>, <<"Home">>}}
    \cup {NavRequest(<<LastStop>>)}

\* POST /nav/route: route the request, store the pack under its route_key,
\* return it.
NavRoute(req, osrm) ==
    LET r == route(req, osrm)
    IN  /\ routed' = [op |-> "nav_route", error |-> r.error, pack |-> r.pack]
        /\ nav_packs' = IF r.pack = <<>> THEN nav_packs
                        ELSE put_nav_pack(r.pack[1].primary.route_key, r.pack[1])
        /\ UNCHANGED <<now, overlayVars, corridorVars, placesVars, bundleVars,
                       versionVars, keyed, cap, poly,
                   moreVars>>

NavNext ==
    \/ \E req \in NavRouteRequests, osrm \in OsrmAnswers : NavRoute(req, osrm)
    \/ Tick

(***************************************************************************)
(* Part VII.  CAP composite priority (app/services/hazards.py).            *)
(*                                                                         *)
(* Scores are in hundredths and priorities in thousandths, so that the     *)
(* weighted sum is an integer in units of 1e-4.                            *)
(***************************************************************************)
_CAP_SEVERITY_SCORES ==
    [extreme |-> 100, severe |-> 80, moderate |-> 50, minor |-> 25, unknown |-> 30]

_CAP_URGENCY_SCORES ==
    [immediate |-> 100, expected |-> 75, future |-> 40, past |-> 10, unknown |-> 30]

_CAP_CERTAINTY_SCORES ==
    [observed |-> 100, likely |-> 80, possible |-> 50, unlikely |-> 20, unknown |-> 30]

\* (x or "").strip().lower() on the labels a feed sends in the model.
strip_lower(x) ==
    IF x = <<>> THEN ""
    ELSE CASE x[1] = "Extreme " -> "extreme"
           [] x[1] = "Expected" -> "expected"
           [] OTHER -> x[1]

\* table.get(key, 0.3)
score_get(table, key) == IF key \in DOMAIN table THEN table[key] ELSE 30

\* The score triples whose weighted sum lies halfway between two thousandths
\* and whose double-precision sum round(.., 3) takes to the upper one; every
\* other halfway sum of the tables goes to the lower one.
TiesRoundedUp ==
    {<<30, 75, 80>>, <<80, 75, 20>>, <<80, 75, 50>>, <<80, 75, 100>>,
     <<100, 75, 20>>, <<100, 75, 80>>}

\* The weighted sum with urgency counted against the alert.
round3_urgency_inverted(sev_s, urg_s, cer_s) ==
    (sev_s * 40 + (100 - urg_s) * 35 + cer_s * 25 + 5) \div 10

\* round(sev_s * 0.40 + urg_s * 0.35 + cer_s * 0.25, 3), in thousandths.
round3(sev_s, urg_s, cer_s) ==
    LET sum == sev_s * 40 + urg_s * 35 + cer_s * 25
    IN  IF sum % 10 # 5 THEN (sum + 5) \div 10
        ELSE IF <<sev_s, urg_s, cer_s>> \in TiesRoundedUp THEN sum \div 10 + 1
        ELSE sum \div 10

\* The three scores _compute_effective_priority looks up.
cap_scores(alert) ==
    <<score_get(_CAP_SEVERITY_SCORES, strip_lower(alert.severity)),
      score_get(_CAP_URGENCY_SCORES, strip_lower(alert.urgency)),
      score_get(_CAP_CERTAINTY_SCORES, strip_lower(alert.certainty))>>

_compute_effective_priority(severity, urgency, certainty) ==
    LET s == cap_scores([severity |-> severity, urgency |-> urgency,
                         certainty |-> certainty])
    IN  round3(s[1], s[2], s[3])

\* The CAP alerts of the model: every label of the three tables, a label
\* with capitals or blanks, a label no table knows and a missing label.
CapAlerts ==
    [severity : {<<>>, <<"Extreme ">>, <<"severe">>, <<"moderate">>, <<"minor">>,
                 <<"unknown">>},
     urgency : {<<"immediate">>, <<"Expected">>, <<"future">>, <<"past">>,
                <<"unknown">>},
     certainty : {<<"observed">>, <<"likely">>, <<"possible">>, <<"unlikely">>,
                  <<"bogus">>}]

IdleCap ==
    [pc |-> "idle",
     a |-> [severity |-> <<>>, urgency |-> <<"unknown">>, certainty |-> <<"bogus">>],
     b |-> [severity |-> <<>>, urgency |-> <<"unknown">>, certainty |-> <<"bogus">>],
     pa |-> 0, pb |-> 0]

\* Two alerts of a feed are scored.
ScoreAlerts ==
    /\ cap.pc = "idle"
    /\ cap' = [cap EXCEPT
                 !.pc = "done",
                 !.pa = _compute_effective_priority(cap.a.severity, cap.a.urgency,
                                                    cap.a.certainty),
                 !.pb = _compute_effective_priority(cap.b.severity, cap.b.urgency,
                                                    cap.b.certainty)]
    /\ UNCHANGED <<now, overlayVars, corridorVars, placesVars, bundleVars,
                   versionVars, navVars, keyed, poly,
                   moreVars>>

(***************************************************************************)
(* Part VIII.  Polyline6 (app/core/polyline6.py).                          *)
(*                                                                         *)
(* A coordinate is an integer in units of 1e-7 degree; it is rounded to 6  *)
(* decimal places when it is a multiple of 10.  A string is the sequence   *)
(* of its characters' code points.                                         *)
(***************************************************************************)
RECURSIVE encode_chunks(_)
\* The loop of _encode_value on the shifted value v >= 0.
encode_chunks(v) ==
    IF v >= 32 THEN <<(32 + (v % 32)) + 63>> \o encode_chunks(v \div 32)
    ELSE <<v + 63>>

\* _encode_value(v): ~(v << 1) for a negative v, v << 1 otherwise.
_encode_value(v) == encode_chunks(IF v < 0 THEN (0 - (2 * v)) - 1 ELSE 2 * v)

RECURSIVE encode_from(_, _, _, _)
\* The loop of encode_polyline6 from point i on.
encode_from(coords, i, last_lat, last_lng) ==
    IF i > Len(coords) THEN <<>>
    ELSE LET ilat == round6(coords[i][1])
             ilng == round6(coords[i][2])
         IN  _encode_value(ilat - last_lat) \o _encode_value(ilng - last_lng)
                \o encode_from(coords, i + 1, ilat, ilng)

encode_polyline6(coords) == encode_from(coords, 1, 0, 0)

RECURSIVE decode_chunks(_, _, _, _)
\* The loop of _decode_value: <<result, idx>> after the last chunk.
decode_chunks(s, idx, result, shift) ==
    LET b == s[idx] - 63
        r == result + (b % 32) * (2 ^ shift)
    IN  IF b < 32 THEN <<r, idx + 1>>
        ELSE decode_chunks(s, idx + 1, r, shift + 5)

\* A decoder that takes no notice of the sign bit.
_decode_value_unsigned(s, idx) ==
    LET c == decode_chunks(s, idx, 0, 0)
    IN  <<c[1] \div 2, c[2]>>

\* _decode_value(s, idx): <<d, idx>>.
_decode_value(s, idx) ==
    LET c == decode_chunks(s, idx, 0, 0)
        result == c[1]
    IN  <<IF result % 2 = 1 THEN (0 - (result \div 2)) - 1 ELSE result \div 2, c[2]>>

RECURSIVE decode_from(_, _, _, _)
\* The loop of decode_polyline6; lat / 1_000_000 is the coordinate of lat
\* millionths of a degree.
decode_from(poly_str, idx, lat, lng) ==
    IF idx > Len(poly_str) THEN <<>>
    ELSE LET dlat == _decode_value(poly_str, idx)
             dlng == _decode_value(poly_str, dlat[2])
         IN  << <<(lat + dlat[1]) * 10, (lng + dlng[1]) * 10>> >>
                \o decode_from(poly_str, dlng[2], lat + dlat[1], lng + dlng[1])

decode_polyline6(poly_str) == decode_from(poly_str, 1, 0, 0)

\* Latitudes and longitudes of the model, in 1e-7 degree: zero, values whose
\* millionths fill one chunk exactly (15, -16) or need a second one (16,
\* -17), the ends of the ranges, and values with a seventh decimal.
PolyLats == {0, 150, -160, 160, -900000000, 900000000, -274700004}
PolyLngs == {0, -170, -1800000000, 1800000000, 1530200006}

MaxPts == 2

PolyCoords ==
    UNION {[1..n -> PolyLats \X PolyLngs] : n \in 0..MaxPts}

IdlePoly == [pc |-> "idle", coords |-> <<>>, encoded |-> <<>>, decoded |-> <<>>]

Encode ==
    /\ poly.pc = "idle"
    /\ poly' = [poly EXCEPT !.pc = "encoded",
                            !.encoded = encode_polyline6(poly.coords)]
    /\ UNCHANGED <<now, overlayVars, corridorVars, placesVars, bundleVars,
                   versionVars, navVars, keyed, cap,
                   moreVars>>

Decode ==
    /\ poly.pc = "encoded"
    /\ poly' = [poly EXCEPT !.pc = "decoded",
                            !.decoded = decode_polyline6(poly.encoded)]
    /\ UNCHANGED <<now, overlayVars, corridorVars, placesVars, bundleVars,
                   versionVars, navVars, keyed, cap,
                   moreVars>>

PolylineNext == Encode \/ Decode

(***************************************************************************)
(* Part IX.  The QLD full/delta merge cache (app/services/traffic.py).     *)
(*                                                                         *)
(* The upstream holds one feature, x, that changes over time; a feature is *)
(* [rev, status], rev counting the upstream's changes.  Several polls run  *)
(* in one event loop: a poll is suspended only while it awaits a response. *)
(***************************************************************************)
\* The upstream changes the feature at most MaxRev times.
MaxRev == 2

\* The polls that can be in progress at the same time.
Pollers == {1, 2}

\* max(1, int(settings.qldtraffic_full_refresh_seconds or 900)) and
\* max(1, int(settings.qldtraffic_cache_seconds or 60)), in units of now.
qld_full_refresh_s == 2
qld_ttl_s == 1

Feature(rev, status) == [rev |-> rev, status |-> status]

\* _QldTrafficProvider._status_allows(feature)
_status_allows(f) == f.status \in {"", "published", "reopened"}

\* _QldTrafficCache.is_full_stale(full_refresh_s)
is_full_stale(full_refresh_s) ==
    IF qcache.features_by_id = <<>> THEN TRUE
    ELSE (now - qcache.full_at) > (IF full_refresh_s > 1 THEN full_refresh_s ELSE 1)

\* _QldTrafficCache.can_use_cached(ttl_s)
can_use_cached(ttl_s) ==
    IF qcache.features_by_id = <<>> THEN FALSE
    ELSE LET latest == IF qcache.full_at > qcache.delta_at
                       THEN qcache.full_at ELSE qcache.delta_at
         IN  (now - latest) <= (IF ttl_s > 1 THEN ttl_s ELSE 1)

\* _qld_fetch_full after the response: the map built from the allowed
\* features of the response, which replaces _QCACHE.features_by_id.
full_refresh(feats) ==
    IF feats # <<>> /\ _status_allows(feats[1]) THEN feats ELSE <<>>

\* _qld_fetch_delta_merge after the response: each feature of the response
\* is popped from the map or stored in it.
delta_merge(feats) ==
    IF feats = <<>> THEN qcache.features_by_id
    ELSE IF ~_status_allows(feats[1]) THEN <<>>
    ELSE feats

IdleQpoll ==
    [pc |-> "idle", issued_at |-> 0, resp |-> <<>>, ok |-> TRUE, seen |-> <<>>]

IdleQcache == [full_at |-> 0, delta_at |-> 0, features_by_id |-> <<>>]

\* _QldTrafficProvider.poll up to its first await: the full request or the
\* delta request is issued, or the map is used as it is.
QldPollStart(p) ==
    /\ qpolls[p].pc \in {"idle", "done"}
    /\ IF is_full_stale(qld_full_refresh_s)
       THEN qpolls' = [qpolls EXCEPT ![p] = [IdleQpoll EXCEPT !.pc = "full",
                                                              !.issued_at = now]]
       ELSE IF ~can_use_cached(qld_ttl_s)
       THEN qpolls' = [qpolls EXCEPT ![p] = [IdleQpoll EXCEPT !.pc = "delta",
                                                              !.issued_at = now]]
       ELSE qpolls' = [qpolls EXCEPT ![p] = [IdleQpoll EXCEPT
                                               !.pc = "done",
                                               !.issued_at = now,
                                               !.seen = qcache.features_by_id]]
    /\ UNCHANGED <<now, upstream, qcache, qlast, overlayVars, corridorVars,
                   placesVars, bundleVars, versionVars, navVars, keyed, cap, poly,
                   topupVars, lastVars>>

\* The upstream answers the request of poll p with its state of that moment;
\* the response is then on its way.
QldAnswer(p) ==
    /\ qpolls[p].pc \in {"full", "delta"}
    /\ qpolls[p].resp = <<>>
    /\ qpolls' = [qpolls EXCEPT ![p].resp = <<upstream>>]
    /\ UNCHANGED <<now, upstream, qcache, qlast, overlayVars, corridorVars,
                   placesVars, bundleVars, versionVars, navVars, keyed, cap, poly,
                   topupVars, lastVars>>

\* The response reaches poll p: _qld_fetch_full or _qld_fetch_delta_merge
\* goes on after its await, and poll reads the map.
QldReceive(p) ==
    /\ qpolls[p].pc \in {"full", "delta"}
    /\ qpolls[p].resp # <<>>
    /\ LET feats == qpolls[p].resp
           by_id == IF qpolls[p].pc = "full" THEN full_refresh(feats)
                    ELSE delta_merge(feats)
       IN  /\ qcache' = IF qpolls[p].pc = "full"
                        THEN [qcache EXCEPT !.features_by_id = by_id, !.full_at = now]
                        ELSE [qcache EXCEPT !.features_by_id = by_id, !.delta_at = now]
           /\ qlast' = IF qpolls[p].pc = "delta"
                       THEN <<[issued_at |-> qpolls[p].issued_at, feature |-> feats[1]]>>
                       ELSE qlast
           /\ qpolls' = [qpolls EXCEPT ![p].pc = "done", ![p].seen = by_id]
    /\ UNCHANGED <<now, upstream, overlayVars, corridorVars, placesVars, bundleVars,
                   versionVars, navVars, keyed, cap, poly, topupVars, lastVars>>

\* The request of poll p fails: the exception leaves the map alone and poll
\* goes on to its fallback feeds.
QldFail(p) ==
    /\ qpolls[p].pc \in {"full", "delta"}
    /\ qpolls' = [qpolls EXCEPT ![p].pc = "done", ![p].ok = FALSE]
    /\ UNCHANGED <<now, upstream, qcache, qlast, overlayVars, corridorVars,
                   placesVars, bundleVars, versionVars, navVars, keyed, cap, poly,
                   topupVars, lastVars>>

\* The road authority updates the feature or takes it off.
UpstreamChange(status) ==
    /\ upstream.rev < MaxRev
    /\ upstream' = Feature(upstream.rev + 1, status)
    /\ UNCHANGED <<now, qcache, qpolls, qlast, overlayVars, corridorVars,
                   placesVars, bundleVars, versionVars, navVars, keyed, cap, poly,
                   topupVars, lastVars>>

QldNext ==
    \/ \E p \in Pollers : QldPollStart(p)
    \/ \E p \in Pollers : QldAnswer(p)
    \/ \E p \in Pollers : QldReceive(p)
    \/ \E p \in Pollers : QldFail(p)
    \/ \E status \in {"published", "cancelled"} : UpstreamChange(status)
    \/ Tick

(***************************************************************************)
(* Part X.  The tiled top-up of Places.search, step by step                *)
(* (app/services/places.py, app/services/places_store.py).                 *)
(*                                                                         *)
(* One call at a time runs the tile loop; the clock may advance between    *)
(* any two of its steps (HTTP latency, backoff sleeps, throttle sleeps).   *)
(* There is no remote store.                                               *)
(***************************************************************************)
\* A bbox of three tiles.
TopupBBox == BBox4(-1000, -1000, 1000, 40000)

TopupRequest(limit) ==
    [op |-> "search", bbox |-> <<TopupBBox>>, categories |-> <<"fuel", "camp">>,
     limit |-> limit]

TopupRequests == {TopupRequest(1), TopupRequest(3)}

TopupKeys == {key_of(r) : r \in TopupRequests}

TopupTiles == tiles_for_bbox(TopupBBox, places_tile_step_deg, places_max_tiles)

TopupTileKeys == {TopupTiles[i][1] : i \in 1..Len(TopupTiles)}

\* The settings the tile loop and the retry loop read: places_tile_ttl_s,
\* places_time_budget_s, places_max_overpass_tiles_per_req, overpass_retries.
Cfgs ==
    [ttl_s : {2}, time_budget_s : {1}, max_overpass_tiles : {1, 2},
     overpass_retries : {1, 2}]

IdleCfg == [ttl_s |-> 0, time_budget_s |-> 0, max_overpass_tiles |-> 0,
            overpass_retries |-> 0]

\* The ledger rows a call can find at time 0: none, or one written a second
\* before, which the clock makes older than the TTL at time 2.
LedgerRows == {<<>>, <<IsoStr(-1)>>}

\* The statuses the Overpass endpoint answers with; 0 stands for a request
\* that raises instead of answering (timeout, connection error).
OverpassStatuses == {0, 200, 400, 429, 502, 503, 504}

\* The elements Overpass returns for tile k: none, or element k.
TileBodies(k) == {<<>>, <<k>>}

IdleTopup ==
    [pc |-> "idle", req |-> <<>>, k |-> 0, started |-> 0, tiles_fetched |-> 0,
     items |-> <<>>, used_overpass |-> FALSE, queried |-> <<>>, skipped |-> {},
     outcome |-> ""]

IdleFetch ==
    [tile |-> 0, i |-> 0, posts |-> <<>>, sleeps |-> 0, state |-> "none",
     body |-> <<>>]

\* _is_retryable_status(code)
_is_retryable_status(code) == code \in {429, 502, 503, 504}

\* r.raise_for_status() raises for the 4xx and 5xx statuses.
raise_for_status_raises(code) == code >= 400

\* A mutant of the bound of the retry loop: one pass too many.
in_range_one_more(i, attempts) == i <= attempts

\* "for i in range(attempts)": there is a pass for i.
in_range(i, attempts) == i < attempts

\* Places.search from its entry to the tile loop: pack cache miss, local
\* query; the call ends here when the local rows satisfy it.
TopupStart(req) ==
    /\ topup.pc = "idle"
    /\ get_places_pack(key_of(req)) = <<>>
    /\ LET limit == effective_limit(req.limit)
       IN  \E loc \in query_bbox(places_items, req.bbox[1], req.categories, limit) :
             LET items1 == dedup_loop(<<>>, loc, limit)
             IN  IF Len(items1) >= need_count(limit)
                 THEN /\ topup' = [IdleTopup EXCEPT !.pc = "post", !.req = <<req>>,
                                                    !.items = items1,
                                                    !.outcome = "local"]
                 ELSE /\ topup' = [IdleTopup EXCEPT !.pc = "head", !.req = <<req>>,
                                                    !.k = 1, !.started = now,
                                                    !.items = items1]
    /\ fetch' = IdleFetch
    /\ UNCHANGED <<now, cfg, preq, supa, places_items, supa_items, places_tile_state,
                   places_packs, found, overlayVars, corridorVars, bundleVars,
                   versionVars, navVars, keyed, cap, poly, qldVars, lastVars>>

\* A mutant of the cap test: the loop never stops at the cap.
cap_reached_never(tiles_fetched, max_overpass_tiles) == FALSE

\* "if tiles_fetched >= max_overpass_tiles: break"
cap_reached(tiles_fetched, max_overpass_tiles) == tiles_fetched >= max_overpass_tiles

\* "if (time.time() - started) >= time_budget_s and tiles_fetched > 0: break"
budget_spent(started, time_budget_s, tiles_fetched) ==
    (now - started) >= time_budget_s /\ tiles_fetched > 0

\* The head of the tile loop for tile k: the loop ends (no tile left, limit
\* reached, budget spent), skips a fresh tile, or calls
\* _fetch_overpass_with_retries for the tile.
TileStep ==
    /\ topup.pc = "head"
    /\ LET limit == effective_limit(topup.req[1].limit)
       IN  IF topup.k > Len(TopupTiles)
           THEN /\ topup' = [topup EXCEPT !.pc = "post", !.outcome = "exhausted"]
                /\ fetch' = fetch
           ELSE IF Len(topup.items) >= limit
           THEN /\ topup' = [topup EXCEPT !.pc = "post", !.outcome = "limit"]
                /\ fetch' = fetch
           ELSE IF budget_spent(topup.started, cfg.time_budget_s, topup.tiles_fetched)
           THEN /\ topup' = [topup EXCEPT !.pc = "post", !.outcome = "budget"]
                /\ fetch' = fetch
           ELSE IF tile_is_fresh(places_tile_state, TopupTiles[topup.k][1], cfg.ttl_s)
           THEN /\ topup' = [topup EXCEPT !.k = @ + 1, !.skipped = @ \cup {topup.k}]
                /\ fetch' = fetch
           ELSE /\ topup' = [topup EXCEPT !.pc = "fetching",
                                          !.queried = Append(@, topup.k)]
                /\ fetch' = [IdleFetch EXCEPT !.tile = topup.k, !.state = "ready"]
    /\ UNCHANGED <<now, cfg, preq, supa, places_items, supa_items, places_tile_state,
                   places_packs, found, overlayVars, corridorVars, bundleVars,
                   versionVars, navVars, keyed, cap, poly, qldVars, lastVars>>

\* One pass of "for i in range(attempts)" of _fetch_overpass_with_retries:
\* the request is sent and answered with `status`.  A 200 returns the body;
\* a retryable status sleeps and goes on; any other outcome raises inside
\* the try, is caught by "except Exception", sleeps and goes on.  After the
\* last pass the function raises, and the exception leaves the tile loop.
Post(status, body) ==
    /\ topup.pc = "fetching"
    /\ fetch.state = "ready"
    /\ in_range(fetch.i, cfg.overpass_retries)
    /\ LET sent == [fetch EXCEPT !.i = @ + 1,
                                 !.posts = Append(@, status)]
           slept == [sent EXCEPT !.sleeps = @ + 1]
           returns == /\ status # 0
                      /\ ~_is_retryable_status(status)
                      /\ ~raise_for_status_raises(status)
       IN  IF returns
           THEN /\ fetch' = [sent EXCEPT !.state = "returned", !.body = body]
                /\ topup' = topup
           ELSE IF in_range(slept.i, cfg.overpass_retries)
           THEN /\ fetch' = slept
                /\ topup' = topup
           ELSE /\ fetch' = [slept EXCEPT !.state = "raised"]
                /\ topup' = [topup EXCEPT !.pc = "post", !.outcome = "failed"]
    /\ UNCHANGED <<now, cfg, preq, supa, places_items, supa_items, places_tile_state,
                   places_packs, found, overlayVars, corridorVars, bundleVars,
                   versionVars, navVars, keyed, cap, poly, qldVars, lastVars>>

\* The categories a ledger row of the model starts with: the row was written
\* for fuel alone, or for camp and fuel.
PriorCategories == {{"fuel"}, {"camp", "fuel"}}

\* _norm_categories: the categories as a sorted list without blanks, written
\* as the set of its elements.
_norm_categories(categories) == Range(categories)

\* The tile loop after a fetch that returned: the items are upserted (a
\* failure of the local table is printed and the loop goes on), the tile is
\* marked fetched (a failure is printed), the items are appended, and the
\* loop stops at the cap.
TileDone(upsert_ok, mark_ok) ==
    /\ topup.pc = "fetching"
    /\ fetch.state = "returned"
    /\ LET k == fetch.tile
           limit == effective_limit(topup.req[1].limit)
           fetched_items == [j \in 1..Len(fetch.body) |->
                                _element_to_item(OsmElements[fetch.body[j]])]
           stored == fetched_items # <<>> /\ upsert_ok
           fetched1 == topup.tiles_fetched + 1
           stop == cap_reached(fetched1, cfg.max_overpass_tiles)
       IN  /\ places_items' = IF stored THEN upsert_items(places_items, fetched_items)
                              ELSE places_items
           /\ places_tile_state' =
                  IF mark_ok
                  THEN [places_tile_state EXCEPT ![TopupTiles[k][1]] = <<utc_now_iso>>]
                  ELSE places_tile_state
           /\ tile_cats' =
                  IF mark_ok
                  THEN [tile_cats EXCEPT ![TopupTiles[k][1]] =
                                             _norm_categories(topup.req[1].categories)]
                  ELSE tile_cats
           /\ topup' = [topup EXCEPT
                          !.used_overpass = @ \/ fetched_items # <<>>,
                          !.items = dedup_loop(@, fetched_items, limit),
                          !.tiles_fetched = fetched1,
                          !.k = k + 1,
                          !.pc = IF stop THEN "post" ELSE "head",
                          !.outcome = IF stop THEN "cap" ELSE ""]
           /\ fetch' = [fetch EXCEPT !.state = "done"]
    /\ UNCHANGED <<now, cfg, preq, supa, supa_items, places_packs, found, overlayVars,
                   corridorVars, bundleVars, versionVars, navVars, keyed, cap, poly,
                   qldVars, dist, ptable, build>>

\* Places.search after the tile loop: the pack is built and stored.
TopupFinish ==
    /\ topup.pc = "post"
    /\ LET req == topup.req[1]
           pkey == key_of(req)
           limit == effective_limit(req.limit)
           final_provider == IF topup.used_overpass THEN "local+overpass" ELSE "local"
           pack == PlacesPack(pkey, Take(topup.items, limit), final_provider)
       IN  places_packs' = [places_packs EXCEPT ![pkey] = <<pack>>]
    /\ topup' = [topup EXCEPT !.pc = "done"]
    /\ UNCHANGED <<now, cfg, preq, supa, places_items, supa_items, places_tile_state,
                   fetch, found, overlayVars, corridorVars, bundleVars, versionVars,
                   navVars, keyed, cap, poly, qldVars, lastVars>>

TopupNext ==
    \/ \E req \in TopupRequests : TopupStart(req)
    \/ TileStep
    \/ \E status \in OverpassStatuses :
         \E body \in (IF status = 200 THEN TileBodies(fetch.tile) ELSE {<<>>}) :
           Post(status, body)
    \/ \E upsert_ok \in (IF fetch.body = <<>> THEN {TRUE} ELSE BOOLEAN) :
         \E mark_ok \in BOOLEAN : TileDone(upsert_ok, mark_ok)
    \/ TopupFinish
    \/ Tick

(***************************************************************************)
(* Part XI.  The corridor filter on its own (app/services/places.py):      *)
(* one decision of _accept for an item that is not yet in the list.        *)
(***************************************************************************)
\* The routes whose samples the filter is run against: 600 m long, 400 m
\* long, 20 km long, and 8 km out and back to 200 m from the start.
DistRoutes ==
    {<< <<0, 0>>, <<600, 0>> >>, << <<0, 0>>, <<400, 0>> >>,
     << <<0, 0>>, <<20000, 0>> >>, << <<0, 0>>, <<8000, 0>>, <<200, 0>> >>}

\* The latitudes of the item, in metres along the meridian of the routes.
DistLats == {-350, 100, 450, 700, 8300, 8600}

\* buffer_km * 1000.0 for the buffers 0.3, 0.499, 0.5 and 2 km.
DistBuffers == {300, 499, 500, 2000}

IdleDist ==
    [pc |-> "idle", lat |-> 0, route |-> <<>>, buffer_m |-> 0, samples |-> <<>>,
     accepted |-> FALSE]

\* search_corridor_polyline samples the route and _accept decides on the
\* item.
DecideAccept ==
    /\ dist.pc = "idle"
    /\ LET samples == _sample_polyline(dist.route)
           it == [id |-> <<"osm", "node", 1>>, lat |-> dist.lat, lng |-> 0,
                  category |-> "fuel"]
       IN  dist' = [dist EXCEPT !.pc = "done", !.samples = samples,
                                !.accepted = _accept(it, <<>>, samples, dist.buffer_m)]
    /\ UNCHANGED <<now, overlayVars, corridorVars, placesVars, bundleVars, versionVars,
                   navVars, keyed, cap, poly, topupVars, qldVars, ptable, tile_cats,
                   build>>

(***************************************************************************)
(* Part XII.  The local table places_items (app/services/places_store.py). *)
(* ptable.rows is the table as a set of rows, so that two rows with one    *)
(* key are a state the model can tell apart; ptable.cur is the last row    *)
(* the cursor executed.                                                    *)
(***************************************************************************)
\* The ids of the items handed to upsert_items: two OSM features, an OSM id
\* of 0 and an id that is not an OSM id.
UpsertIds ==
    {<<"osm", "node", 1>>, <<"osm", "way", 1>>, <<"osm", "node", 0>>, <<"local", "node", 1>>}

UpsertItemSet ==
    [id : UpsertIds, lat : {0}, lng : {0}, name : {<<>>, <<"a">>},
     category : {<<>>, <<"fuel">>}]

\* A call hands over one or two items.
UpsertBatches == SeqsUpTo(UpsertItemSet, 2) \ {<<>>}

IdlePtable == [rows |-> {}, cur |-> <<>>]

\* "osm:type:id" gives (type, id); anything else gives ("node", 0).
_parse_osm_identity(place_id) ==
    IF place_id[1] = "osm" THEN <<place_id[2], place_id[3]>> ELSE <<"node", 0>>

\* The rows list of upsert_items: items whose osm_id is 0 are left out.
RECURSIVE item_rows(_, _)
item_rows(items, ts) ==
    IF items = <<>> THEN <<>>
    ELSE LET it == Head(items)
             ident == _parse_osm_identity(it.id)
             row == [osm_type |-> ident[1], osm_id |-> ident[2], lat |-> it.lat,
                     lng |-> it.lng, name |-> it.name, category |-> it.category,
                     first_seen |-> ts, last_seen |-> ts]
         IN  IF ident[2] = 0 THEN item_rows(Tail(items), ts)
             ELSE <<row>> \o item_rows(Tail(items), ts)

\* COALESCE(excluded, stored), without the stored value.
coalesce_excluded(excluded, stored) == excluded

\* COALESCE(excluded, stored): the first of the two that is not null.
coalesce(excluded, stored) == IF excluded # <<>> THEN excluded ELSE stored

\* INSERT ... ON CONFLICT(osm_type, osm_id) DO UPDATE SET ... for one row.
on_conflict_update(rows, row) ==
    LET hit == {r \in rows : r.osm_type = row.osm_type /\ r.osm_id = row.osm_id}
    IN  IF hit = {} THEN rows \cup {row}
        ELSE (rows \ hit) \cup
             {[r EXCEPT !.lat = row.lat, !.lng = row.lng,
                        !.name = coalesce(row.name, r.name),
                        !.category = coalesce(row.category, r.category),
                        !.last_seen = row.last_seen] : r \in hit}

RECURSIVE executemany(_, _)
executemany(rows, todo) ==
    IF todo = <<>> THEN rows
    ELSE executemany(on_conflict_update(rows, Head(todo)), Tail(todo))

\* PlacesStore.upsert_items(items).
UpsertItems(items) ==
    /\ LET todo == item_rows(items, utc_now_iso)
       IN  ptable' = IF todo = <<>> THEN ptable
                     ELSE [rows |-> executemany(ptable.rows, todo),
                           cur |-> <<todo[Len(todo)]>>]
    /\ UNCHANGED <<now, overlayVars, corridorVars, placesVars, bundleVars, versionVars,
                   navVars, keyed, cap, poly, topupVars, qldVars, dist, tile_cats, build>>

UpsertNext ==
    \/ \E items \in UpsertBatches : UpsertItems(items)
    \/ Tick

(***************************************************************************)
(* Part XIII.  POST /bundle/build (app/api/bundle.py), over the pack       *)
(* tables of Part IV.  build is the request in progress: its position in   *)
(* build_bundle, the keys the services returned, the tables it wrote       *)
(* (derived) and those it found already stored (reused).  overlay_at is    *)
(* the created_at of the stored traffic and hazards packs.                 *)
(***************************************************************************)
BuildRequests == [plan_id : {"", "p1"}, route_key : {"", "r1"}, geometry : {"", "g1"}]

BuildTables == {"corridor_packs", "places_packs", "traffic_packs", "hazard_packs"}

OverlayTables == {"traffic_packs", "hazard_packs"}

IdleBuild ==
    [pc |-> "idle", req |-> <<>>, keys |-> [t \in BuildTables |-> <<>>],
     derived |-> {}, reused |-> {}, error |-> <<>>, retry |-> FALSE,
     overlay_at |-> [t \in OverlayTables |-> <<>>]]

\* A mutant of valid_request: nothing is required.
valid_request_any(req) == TRUE

\* "if not req.plan_id: ... if not req.route_key: ... if not req.geometry:"
valid_request(req) == req.plan_id # "" /\ req.route_key # "" /\ req.geometry # ""

\* A mutant of existing: no stored pack is ever found.
existing_never(table) == FALSE

\* "existing = get_corridor_pack(...); if existing:" of Corridor.ensure, and
\* the pack-cache lookups of Places.search, Traffic.poll and Hazards.poll.
existing(table) == pack_json_len[table] # <<>>

\* The cache hit of Traffic.poll / Hazards.poll as build_bundle calls them,
\* without cache_seconds: a stored pack is returned while it is fresh.
cached_fresh(table) ==
    /\ existing(table)
    /\ build.overlay_at[table] # <<>>
    /\ _is_fresh(build.overlay_at[table][1], max_age_of(<<>>))

\* build_bundle is entered: the three checks, before anything else.
BuildStart(req) ==
    /\ build.pc \in {"idle", "done", "failed"}
    /\ build' = [IdleBuild EXCEPT
                   !.req = <<req>>,
                   !.overlay_at = build.overlay_at,
                   !.retry = (build.pc = "failed" /\ build.req = <<req>>
                              /\ build.derived \cup build.reused # {}),
                   !.pc = IF valid_request(req) THEN "ensure" ELSE "failed",
                   !.error = IF valid_request(req) THEN <<>>
                             ELSE <<"bad_bundle_request">>]
    /\ UNCHANGED <<now, overlayVars, corridorVars, placesVars, bundleVars, versionVars,
                   navVars, keyed, cap, poly, topupVars, qldVars, dist, ptable,
                   tile_cats>>

\* One service call of build_bundle on its table: the stored pack is returned
\* when the service may reuse it; otherwise the pack is derived and stored
\* with n bytes, or the call raises and the request ends.
ServiceCall(table, reusable, nextpc, ok, n) ==
    IF reusable
    THEN /\ build' = [build EXCEPT !.pc = nextpc, !.reused = @ \cup {table},
                                   !.keys[table] = <<StoredKey[table]>>]
         /\ UNCHANGED <<pack_json_len, touched, bundled>>
    ELSE IF ok
    THEN /\ pack_json_len' = [pack_json_len EXCEPT ![table] = <<n>>]
         /\ touched' = TRUE
         /\ bundled' = IdleBundle
         /\ build' = [build EXCEPT
                        !.pc = nextpc, !.derived = @ \cup {table},
                        !.keys[table] = <<StoredKey[table]>>,
                        !.overlay_at = IF table \in OverlayTables
                                       THEN [@ EXCEPT ![table] = <<utc_now_iso>>]
                                       ELSE @]
    ELSE /\ build' = [build EXCEPT !.pc = "failed", !.error = <<"internal_error">>]
         /\ UNCHANGED <<pack_json_len, touched, bundled>>

\* "cmeta = corridor.ensure(...).meta; cpack = corridor.get(...)"
EnsureCorridor(ok, n) ==
    /\ build.pc = "ensure"
    /\ ServiceCall("corridor_packs", existing("corridor_packs"), "places", ok, n)
    /\ UNCHANGED <<now, manifests, overlayVars, corridorVars, placesVars, versionVars,
                   navVars, keyed, cap, poly, topupVars, qldVars, dist, ptable,
                   tile_cats>>

\* "ppack = places.search(preq)"
PlacesSearch(ok, n) ==
    /\ build.pc = "places"
    /\ ServiceCall("places_packs", existing("places_packs"), "traffic", ok, n)
    /\ UNCHANGED <<now, manifests, overlayVars, corridorVars, placesVars, versionVars,
                   navVars, keyed, cap, poly, topupVars, qldVars, dist, ptable,
                   tile_cats>>

\* "tpack = await traffic.poll(bbox=cpack.bbox)"
TrafficPoll(ok, n) ==
    /\ build.pc = "traffic"
    /\ ServiceCall("traffic_packs", cached_fresh("traffic_packs"), "hazards", ok, n)
    /\ UNCHANGED <<now, manifests, overlayVars, corridorVars, placesVars, versionVars,
                   navVars, keyed, cap, poly, topupVars, qldVars, dist, ptable,
                   tile_cats>>

\* "hpack = await hazards.poll(bbox=cpack.bbox)"
HazardsPoll(ok, n) ==
    /\ build.pc = "hazards"
    /\ ServiceCall("hazard_packs", cached_fresh("hazard_packs"), "manifest", ok, n)
    /\ UNCHANGED <<now, manifests, overlayVars, corridorVars, placesVars, versionVars,
                   navVars, keyed, cap, poly, topupVars, qldVars, dist, ptable,
                   tile_cats>>

\* The keyword arguments of "return bundle.build_manifest(...)": every asset
\* is passed as ready, under the key its service returned.
build_bundle_args ==
    [ManifestArgs(TRUE,
                  <<build.keys["corridor_packs"], TRUE>>,
                  <<build.keys["places_packs"], TRUE>>,
                  <<build.keys["traffic_packs"], TRUE>>,
                  <<build.keys["hazard_packs"], TRUE>>)
        EXCEPT !.plan_id = build.req[1].plan_id, !.route_key = build.req[1].route_key]

\* "return bundle.build_manifest(...)": the manifest is built and persisted.
PersistManifest ==
    /\ build.pc = "manifest"
    /\ LET m == build_manifest(build_bundle_args)
       IN  /\ manifests' = [manifests EXCEPT ![build.req[1].plan_id] = <<m>>]
           /\ bundled' = [IdleBundle EXCEPT !.op = "build_manifest",
                                            !.args = <<build_bundle_args>>,
                                            !.undisturbed = ~touched,
                                            !.manifest = <<m>>]
    /\ touched' = FALSE
    /\ build' = [build EXCEPT !.pc = "done"]
    /\ UNCHANGED <<now, pack_json_len, overlayVars, corridorVars, placesVars, versionVars,
                   navVars, keyed, cap, poly, topupVars, qldVars, dist, ptable,
                   tile_cats>>

BuildNext ==
    \/ \E req \in BuildRequests : BuildStart(req)
    \/ \E ok \in BOOLEAN, n \in 1..MaxBytes : EnsureCorridor(ok, n)
    \/ \E ok \in BOOLEAN, n \in 1..MaxBytes : PlacesSearch(ok, n)
    \/ \E ok \in BOOLEAN, n \in 1..MaxBytes : TrafficPoll(ok, n)
    \/ \E ok \in BOOLEAN, n \in 1..MaxBytes : HazardsPoll(ok, n)
    \/ PersistManifest
    \/ \E p \in PlanIds : BuildZip(p)
    \/ Tick

(***************************************************************************)
(* Specifications.  Each one runs one subsystem; the others stay idle.     *)
(***************************************************************************)
vars == <<now, overlayVars, corridorVars, placesVars, otherVars>>

\* The overlay tables start empty; the request under study is any of the
\* model's; no corridor or places work happens.
InitOverlay ==
    /\ now = 0
    /\ ovl \in [svc : {"traffic", "hazards"}, bbox : QueryBBoxes]
    /\ overlay_packs = <<>>
    /\ poll = IdlePoll
    /\ creq = [buffer_m |-> 0, max_edges |-> 1]
    /\ edges_db = {}
    /\ corridor_packs = [k \in CorridorKeys |-> <<>>]
    /\ ensured = IdleEnsure
    /\ preq = [op |-> "search", bbox |-> <<>>, categories |-> <<"fuel">>, limit |-> 2]
    /\ supa = FALSE
    /\ places_items = {}
    /\ supa_items = {}
    /\ places_tile_state = [k \in TileKeys |-> <<>>]
    /\ places_packs = [k \in PlacesKeys |-> <<>>]
    /\ found = IdleFound
    /\ pack_json_len = [t \in PackTables |-> <<>>]
    /\ manifests = [p \in PlanIds |-> <<>>]
    /\ touched = FALSE
    /\ bundled = IdleBundle
    /\ deployed = [svc |-> "corridor", release |-> 1]
    /\ version_packs = {}
    /\ served = IdleServed
    /\ nav_packs = {}
    /\ routed = IdleRouted
    /\ keyed = IdleKeyed
    /\ cap = IdleCap
    /\ poly = IdlePoly
    /\ cfg = IdleCfg
    /\ topup = IdleTopup
    /\ fetch = IdleFetch
    /\ upstream = Feature(0, "published")
    /\ qcache = IdleQcache
    /\ qpolls = [p \in Pollers |-> IdleQpoll]
    /\ qlast = <<>>
    /\ dist = IdleDist
    /\ ptable = IdlePtable
    /\ tile_cats = <<>>
    /\ build = IdleBuild

SpecOverlay == InitOverlay /\ [][OverlayNext]_vars

\* The corridor table starts empty over any content of the edge store; no
\* overlay or places work happens.
InitCorridor ==
    /\ now = 0
    /\ ovl = [svc |-> "traffic", bbox |-> OffshoreBBox]
    /\ overlay_packs = <<>>
    /\ poll = IdlePoll
    /\ creq \in [buffer_m : BufferArgs, max_edges : MaxEdgesArgs]
    /\ edges_db \in SUBSET (1..MaxEdgeId)
    /\ corridor_packs = [k \in CorridorKeys |-> <<>>]
    /\ ensured = IdleEnsure
    /\ preq = [op |-> "search", bbox |-> <<>>, categories |-> <<"fuel">>, limit |-> 2]
    /\ supa = FALSE
    /\ places_items = {}
    /\ supa_items = {}
    /\ places_tile_state = [k \in TileKeys |-> <<>>]
    /\ places_packs = [k \in PlacesKeys |-> <<>>]
    /\ found = IdleFound
    /\ pack_json_len = [t \in PackTables |-> <<>>]
    /\ manifests = [p \in PlanIds |-> <<>>]
    /\ touched = FALSE
    /\ bundled = IdleBundle
    /\ deployed = [svc |-> "corridor", release |-> 1]
    /\ version_packs = {}
    /\ served = IdleServed
    /\ nav_packs = {}
    /\ routed = IdleRouted
    /\ keyed = IdleKeyed
    /\ cap = IdleCap
    /\ poly = IdlePoly
    /\ cfg = IdleCfg
    /\ topup = IdleTopup
    /\ fetch = IdleFetch
    /\ upstream = Feature(0, "published")
    /\ qcache = IdleQcache
    /\ qpolls = [p \in Pollers |-> IdleQpoll]
    /\ qlast = <<>>
    /\ dist = IdleDist
    /\ ptable = IdlePtable
    /\ tile_cats = <<>>
    /\ build = IdleBuild

SpecCorridor == InitCorridor /\ [][CorridorNext]_vars

\* The local POI tables start empty; the request under study is any of the
\* model's, with or without a remote store, which other instances have left
\* empty or filled; no overlay or corridor work.
InitPlaces ==
    /\ now = 0
    /\ ovl = [svc |-> "traffic", bbox |-> OffshoreBBox]
    /\ overlay_packs = <<>>
    /\ poll = IdlePoll
    /\ creq = [buffer_m |-> 0, max_edges |-> 1]
    /\ edges_db = {}
    /\ corridor_packs = [k \in CorridorKeys |-> <<>>]
    /\ ensured = IdleEnsure
    /\ preq \in PlacesRequests
    /\ supa \in BOOLEAN
    /\ places_items = {}
    /\ supa_items \in (IF supa THEN {{}, 1..MaxPlace} ELSE {{}})
    /\ places_tile_state = [k \in TileKeys |-> <<>>]
    /\ places_packs = [k \in PlacesKeys |-> <<>>]
    /\ found = IdleFound
    /\ pack_json_len = [t \in PackTables |-> <<>>]
    /\ manifests = [p \in PlanIds |-> <<>>]
    /\ touched = FALSE
    /\ bundled = IdleBundle
    /\ deployed = [svc |-> "corridor", release |-> 1]
    /\ version_packs = {}
    /\ served = IdleServed
    /\ nav_packs = {}
    /\ routed = IdleRouted
    /\ keyed = IdleKeyed
    /\ cap = IdleCap
    /\ poly = IdlePoly
    /\ cfg = IdleCfg
    /\ topup = IdleTopup
    /\ fetch = IdleFetch
    /\ upstream = Feature(0, "published")
    /\ qcache = IdleQcache
    /\ qpolls = [p \in Pollers |-> IdleQpoll]
    /\ qlast = <<>>
    /\ dist = IdleDist
    /\ ptable = IdlePtable
    /\ tile_cats = <<>>
    /\ build = IdleBuild

PlacesNext ==
    \/ \E env \in Envs : Search(env)
    \/ \E env \in Envs : SearchCorridorPolyline(env)
    \/ \E i \in 1..MaxPlace : LocalDiscovery(i)
    \/ Tick

SpecPlaces == InitPlaces /\ [][PlacesNext]_vars

\* Every table starts empty: no pack stored, no manifest built.
InitBundle ==
    /\ now = 0
    /\ ovl = [svc |-> "traffic", bbox |-> OffshoreBBox]
    /\ overlay_packs = <<>>
    /\ poll = IdlePoll
    /\ creq = [buffer_m |-> 0, max_edges |-> 1]
    /\ edges_db = {}
    /\ corridor_packs = [k \in CorridorKeys |-> <<>>]
    /\ ensured = IdleEnsure
    /\ preq = [op |-> "search", bbox |-> <<>>, categories |-> <<"fuel">>, limit |-> 2]
    /\ supa = FALSE
    /\ places_items = {}
    /\ supa_items = {}
    /\ places_tile_state = [k \in TileKeys |-> <<>>]
    /\ places_packs = [k \in PlacesKeys |-> <<>>]
    /\ found = IdleFound
    /\ pack_json_len = [t \in PackTables |-> <<>>]
    /\ manifests = [p \in PlanIds |-> <<>>]
    /\ touched = FALSE
    /\ bundled = IdleBundle
    /\ deployed = [svc |-> "corridor", release |-> 1]
    /\ version_packs = {}
    /\ served = IdleServed
    /\ nav_packs = {}
    /\ routed = IdleRouted
    /\ keyed = IdleKeyed
    /\ cap = IdleCap
    /\ poly = IdlePoly
    /\ cfg = IdleCfg
    /\ topup = IdleTopup
    /\ fetch = IdleFetch
    /\ upstream = Feature(0, "published")
    /\ qcache = IdleQcache
    /\ qpolls = [p \in Pollers |-> IdleQpoll]
    /\ qlast = <<>>
    /\ dist = IdleDist
    /\ ptable = IdlePtable
    /\ tile_cats = <<>>
    /\ build = IdleBuild

SpecBundle == InitBundle /\ [][BundleNext]_vars

\* The first release of any one service runs over its empty pack table.
InitVersions ==
    /\ now = 0
    /\ ovl = [svc |-> "traffic", bbox |-> OffshoreBBox]
    /\ overlay_packs = <<>>
    /\ poll = IdlePoll
    /\ creq = [buffer_m |-> 0, max_edges |-> 1]
    /\ edges_db = {}
    /\ corridor_packs = [k \in CorridorKeys |-> <<>>]
    /\ ensured = IdleEnsure
    /\ preq = [op |-> "search", bbox |-> <<>>, categories |-> <<"fuel">>, limit |-> 2]
    /\ supa = FALSE
    /\ places_items = {}
    /\ supa_items = {}
    /\ places_tile_state = [k \in TileKeys |-> <<>>]
    /\ places_packs = [k \in PlacesKeys |-> <<>>]
    /\ found = IdleFound
    /\ pack_json_len = [t \in PackTables |-> <<>>]
    /\ manifests = [p \in PlanIds |-> <<>>]
    /\ touched = FALSE
    /\ bundled = IdleBundle
    /\ deployed \in [svc : Services, release : {1}]
    /\ version_packs = {}
    /\ served = IdleServed
    /\ nav_packs = {}
    /\ routed = IdleRouted
    /\ keyed = IdleKeyed
    /\ cap = IdleCap
    /\ poly = IdlePoly
    /\ cfg = IdleCfg
    /\ topup = IdleTopup
    /\ fetch = IdleFetch
    /\ upstream = Feature(0, "published")
    /\ qcache = IdleQcache
    /\ qpolls = [p \in Pollers |-> IdleQpoll]
    /\ qlast = <<>>
    /\ dist = IdleDist
    /\ ptable = IdlePtable
    /\ tile_cats = <<>>
    /\ build = IdleBuild

SpecVersions == InitVersions /\ [][VersionsNext]_vars

\* The nav pack table starts empty.
InitNav ==
    /\ now = 0
    /\ ovl = [svc |-> "traffic", bbox |-> OffshoreBBox]
    /\ overlay_packs = <<>>
    /\ poll = IdlePoll
    /\ creq = [buffer_m |-> 0, max_edges |-> 1]
    /\ edges_db = {}
    /\ corridor_packs = [k \in CorridorKeys |-> <<>>]
    /\ ensured = IdleEnsure
    /\ preq = [op |-> "search", bbox |-> <<>>, categories |-> <<"fuel">>, limit |-> 2]
    /\ supa = FALSE
    /\ places_items = {}
    /\ supa_items = {}
    /\ places_tile_state = [k \in TileKeys |-> <<>>]
    /\ places_packs = [k \in PlacesKeys |-> <<>>]
    /\ found = IdleFound
    /\ pack_json_len = [t \in PackTables |-> <<>>]
    /\ manifests = [p \in PlanIds |-> <<>>]
    /\ touched = FALSE
    /\ bundled = IdleBundle
    /\ deployed = [svc |-> "corridor", release |-> 1]
    /\ version_packs = {}
    /\ served = IdleServed
    /\ nav_packs = {}
    /\ routed = IdleRouted
    /\ keyed = IdleKeyed
    /\ cap = IdleCap
    /\ poly = IdlePoly
    /\ cfg = IdleCfg
    /\ topup = IdleTopup
    /\ fetch = IdleFetch
    /\ upstream = Feature(0, "published")
    /\ qcache = IdleQcache
    /\ qpolls = [p \in Pollers |-> IdleQpoll]
    /\ qlast = <<>>
    /\ dist = IdleDist
    /\ ptable = IdlePtable
    /\ tile_cats = <<>>
    /\ build = IdleBuild

SpecNav == InitNav /\ [][NavNext]_vars

\* Any two nav requests of the model are at hand.
InitKeying ==
    /\ now = 0
    /\ ovl = [svc |-> "traffic", bbox |-> OffshoreBBox]
    /\ overlay_packs = <<>>
    /\ poll = IdlePoll
    /\ creq = [buffer_m |-> 0, max_edges |-> 1]
    /\ edges_db = {}
    /\ corridor_packs = [k \in CorridorKeys |-> <<>>]
    /\ ensured = IdleEnsure
    /\ preq = [op |-> "search", bbox |-> <<>>, categories |-> <<"fuel">>, limit |-> 2]
    /\ supa = FALSE
    /\ places_items = {}
    /\ supa_items = {}
    /\ places_tile_state = [k \in TileKeys |-> <<>>]
    /\ places_packs = [k \in PlacesKeys |-> <<>>]
    /\ found = IdleFound
    /\ pack_json_len = [t \in PackTables |-> <<>>]
    /\ manifests = [p \in PlanIds |-> <<>>]
    /\ touched = FALSE
    /\ bundled = IdleBundle
    /\ deployed = [svc |-> "corridor", release |-> 1]
    /\ version_packs = {}
    /\ served = IdleServed
    /\ nav_packs = {}
    /\ routed = IdleRouted
    /\ keyed \in {[IdleKeyed EXCEPT !.a = a, !.b = b] : a \in NavRequests, b \in NavRequests}
    /\ cap = IdleCap
    /\ poly = IdlePoly
    /\ cfg = IdleCfg
    /\ topup = IdleTopup
    /\ fetch = IdleFetch
    /\ upstream = Feature(0, "published")
    /\ qcache = IdleQcache
    /\ qpolls = [p \in Pollers |-> IdleQpoll]
    /\ qlast = <<>>
    /\ dist = IdleDist
    /\ ptable = IdlePtable
    /\ tile_cats = <<>>
    /\ build = IdleBuild

SpecKeying == InitKeying /\ [][KeyRequests]_vars

\* Any two CAP alerts of the model are at hand.
InitCap ==
    /\ now = 0
    /\ ovl = [svc |-> "traffic", bbox |-> OffshoreBBox]
    /\ overlay_packs = <<>>
    /\ poll = IdlePoll
    /\ creq = [buffer_m |-> 0, max_edges |-> 1]
    /\ edges_db = {}
    /\ corridor_packs = [k \in CorridorKeys |-> <<>>]
    /\ ensured = IdleEnsure
    /\ preq = [op |-> "search", bbox |-> <<>>, categories |-> <<"fuel">>, limit |-> 2]
    /\ supa = FALSE
    /\ places_items = {}
    /\ supa_items = {}
    /\ places_tile_state = [k \in TileKeys |-> <<>>]
    /\ places_packs = [k \in PlacesKeys |-> <<>>]
    /\ found = IdleFound
    /\ pack_json_len = [t \in PackTables |-> <<>>]
    /\ manifests = [p \in PlanIds |-> <<>>]
    /\ touched = FALSE
    /\ bundled = IdleBundle
    /\ deployed = [svc |-> "corridor", release |-> 1]
    /\ version_packs = {}
    /\ served = IdleServed
    /\ nav_packs = {}
    /\ routed = IdleRouted
    /\ keyed = IdleKeyed
    /\ cap \in {[IdleCap EXCEPT !.a = a, !.b = b] : a \in CapAlerts, b \in CapAlerts}
    /\ poly = IdlePoly
    /\ cfg = IdleCfg
    /\ topup = IdleTopup
    /\ fetch = IdleFetch
    /\ upstream = Feature(0, "published")
    /\ qcache = IdleQcache
    /\ qpolls = [p \in Pollers |-> IdleQpoll]
    /\ qlast = <<>>
    /\ dist = IdleDist
    /\ ptable = IdlePtable
    /\ tile_cats = <<>>
    /\ build = IdleBuild

SpecCap == InitCap /\ [][ScoreAlerts]_vars

\* Any coordinate list of the model is at hand.
InitPolyline ==
    /\ now = 0
    /\ ovl = [svc |-> "traffic", bbox |-> OffshoreBBox]
    /\ overlay_packs = <<>>
    /\ poll = IdlePoll
    /\ creq = [buffer_m |-> 0, max_edges |-> 1]
    /\ edges_db = {}
    /\ corridor_packs = [k \in CorridorKeys |-> <<>>]
    /\ ensured = IdleEnsure
    /\ preq = [op |-> "search", bbox |-> <<>>, categories |-> <<"fuel">>, limit |-> 2]
    /\ supa = FALSE
    /\ places_items = {}
    /\ supa_items = {}
    /\ places_tile_state = [k \in TileKeys |-> <<>>]
    /\ places_packs = [k \in PlacesKeys |-> <<>>]
    /\ found = IdleFound
    /\ pack_json_len = [t \in PackTables |-> <<>>]
    /\ manifests = [p \in PlanIds |-> <<>>]
    /\ touched = FALSE
    /\ bundled = IdleBundle
    /\ deployed = [svc |-> "corridor", release |-> 1]
    /\ version_packs = {}
    /\ served = IdleServed
    /\ nav_packs = {}
    /\ routed = IdleRouted
    /\ keyed = IdleKeyed
    /\ cap = IdleCap
    /\ poly \in {[IdlePoly EXCEPT !.coords = c] : c \in PolyCoords}
    /\ cfg = IdleCfg
    /\ topup = IdleTopup
    /\ fetch = IdleFetch
    /\ upstream = Feature(0, "published")
    /\ qcache = IdleQcache
    /\ qpolls = [p \in Pollers |-> IdleQpoll]
    /\ qlast = <<>>
    /\ dist = IdleDist
    /\ ptable = IdlePtable
    /\ tile_cats = <<>>
    /\ build = IdleBuild

SpecPolyline == InitPolyline /\ [][PolylineNext]_vars

\* The merge cache starts empty, as when the process starts; no poll is in
\* progress.
InitQld ==
    /\ now = 0
    /\ ovl = [svc |-> "traffic", bbox |-> OffshoreBBox]
    /\ overlay_packs = <<>>
    /\ poll = IdlePoll
    /\ creq = [buffer_m |-> 0, max_edges |-> 1]
    /\ edges_db = {}
    /\ corridor_packs = [k \in CorridorKeys |-> <<>>]
    /\ ensured = IdleEnsure
    /\ preq = [op |-> "search", bbox |-> <<>>, categories |-> <<"fuel">>, limit |-> 2]
    /\ supa = FALSE
    /\ places_items = {}
    /\ supa_items = {}
    /\ places_tile_state = [k \in TileKeys |-> <<>>]
    /\ places_packs = [k \in PlacesKeys |-> <<>>]
    /\ found = IdleFound
    /\ pack_json_len = [t \in PackTables |-> <<>>]
    /\ manifests = [p \in PlanIds |-> <<>>]
    /\ touched = FALSE
    /\ bundled = IdleBundle
    /\ deployed = [svc |-> "corridor", release |-> 1]
    /\ version_packs = {}
    /\ served = IdleServed
    /\ nav_packs = {}
    /\ routed = IdleRouted
    /\ keyed = IdleKeyed
    /\ cap = IdleCap
    /\ poly = IdlePoly
    /\ cfg = IdleCfg
    /\ topup = IdleTopup
    /\ fetch = IdleFetch
    /\ upstream = Feature(0, "published")
    /\ qcache = IdleQcache
    /\ qpolls = [p \in Pollers |-> IdleQpoll]
    /\ qlast = <<>>
    /\ dist = IdleDist
    /\ ptable = IdlePtable
    /\ tile_cats = <<>>
    /\ build = IdleBuild

SpecQld == InitQld /\ [][QldNext]_vars

\* The tiled top-up: any settings of the model, any ledger and local table
\* that earlier calls can have left, an empty pack cache.
InitTopup ==
    /\ now = 0
    /\ ovl = [svc |-> "traffic", bbox |-> OffshoreBBox]
    /\ overlay_packs = <<>>
    /\ poll = IdlePoll
    /\ creq = [buffer_m |-> 0, max_edges |-> 1]
    /\ edges_db = {}
    /\ corridor_packs = [k \in CorridorKeys |-> <<>>]
    /\ ensured = IdleEnsure
    /\ preq = [op |-> "search", bbox |-> <<>>, categories |-> <<"fuel">>, limit |-> 2]
    /\ supa = FALSE
    /\ places_items \in {{}, {1}}
    /\ supa_items = {}
    /\ places_tile_state \in [TopupTileKeys -> LedgerRows]
    /\ places_packs = [k \in TopupKeys |-> <<>>]
    /\ found = IdleFound
    /\ pack_json_len = [t \in PackTables |-> <<>>]
    /\ manifests = [p \in PlanIds |-> <<>>]
    /\ touched = FALSE
    /\ bundled = IdleBundle
    /\ deployed = [svc |-> "corridor", release |-> 1]
    /\ version_packs = {}
    /\ served = IdleServed
    /\ nav_packs = {}
    /\ routed = IdleRouted
    /\ keyed = IdleKeyed
    /\ cap = IdleCap
    /\ poly = IdlePoly
    /\ cfg \in Cfgs
    /\ topup = IdleTopup
    /\ fetch = IdleFetch
    /\ upstream = Feature(0, "published")
    /\ qcache = IdleQcache
    /\ qpolls = [p \in Pollers |-> IdleQpoll]
    /\ qlast = <<>>
    /\ dist = IdleDist
    /\ ptable = IdlePtable
    /\ tile_cats \in {[key \in TopupTileKeys |->
                         IF places_tile_state[key] = <<>> THEN {} ELSE c] :
                     c \in PriorCategories}
    /\ build = IdleBuild

SpecTopup == InitTopup /\ [][TopupNext]_vars

\* The corridor filter: any item position, route and buffer of the model.
InitDistance ==
    /\ now = 0
    /\ ovl = [svc |-> "traffic", bbox |-> OffshoreBBox]
    /\ overlay_packs = <<>>
    /\ poll = IdlePoll
    /\ creq = [buffer_m |-> 0, max_edges |-> 1]
    /\ edges_db = {}
    /\ corridor_packs = [k \in CorridorKeys |-> <<>>]
    /\ ensured = IdleEnsure
    /\ preq = [op |-> "search", bbox |-> <<>>, categories |-> <<"fuel">>, limit |-> 2]
    /\ supa = FALSE
    /\ places_items = {}
    /\ supa_items = {}
    /\ places_tile_state = [k \in TileKeys |-> <<>>]
    /\ places_packs = [k \in PlacesKeys |-> <<>>]
    /\ found = IdleFound
    /\ pack_json_len = [t \in PackTables |-> <<>>]
    /\ manifests = [p \in PlanIds |-> <<>>]
    /\ touched = FALSE
    /\ bundled = IdleBundle
    /\ deployed = [svc |-> "corridor", release |-> 1]
    /\ version_packs = {}
    /\ served = IdleServed
    /\ nav_packs = {}
    /\ routed = IdleRouted
    /\ keyed = IdleKeyed
    /\ cap = IdleCap
    /\ poly = IdlePoly
    /\ cfg = IdleCfg
    /\ topup = IdleTopup
    /\ fetch = IdleFetch
    /\ upstream = Feature(0, "published")
    /\ qcache = IdleQcache
    /\ qpolls = [p \in Pollers |-> IdleQpoll]
    /\ qlast = <<>>
    /\ dist \in {[IdleDist EXCEPT !.lat = lat, !.route = r, !.buffer_m = b] :
                   lat \in DistLats, r \in DistRoutes, b \in DistBuffers}
    /\ ptable = IdlePtable
    /\ tile_cats = <<>>
    /\ build = IdleBuild

SpecDistance == InitDistance /\ [][DecideAccept]_vars

\* The local table: any sequence of upsert_items calls while time passes.
InitUpsert ==
    /\ now = 0
    /\ ovl = [svc |-> "traffic", bbox |-> OffshoreBBox]
    /\ overlay_packs = <<>>
    /\ poll = IdlePoll
    /\ creq = [buffer_m |-> 0, max_edges |-> 1]
    /\ edges_db = {}
    /\ corridor_packs = [k \in CorridorKeys |-> <<>>]
    /\ ensured = IdleEnsure
    /\ preq = [op |-> "search", bbox |-> <<>>, categories |-> <<"fuel">>, limit |-> 2]
    /\ supa = FALSE
    /\ places_items = {}
    /\ supa_items = {}
    /\ places_tile_state = [k \in TileKeys |-> <<>>]
    /\ places_packs = [k \in PlacesKeys |-> <<>>]
    /\ found = IdleFound
    /\ pack_json_len = [t \in PackTables |-> <<>>]
    /\ manifests = [p \in PlanIds |-> <<>>]
    /\ touched = FALSE
    /\ bundled = IdleBundle
    /\ deployed = [svc |-> "corridor", release |-> 1]
    /\ version_packs = {}
    /\ served = IdleServed
    /\ nav_packs = {}
    /\ routed = IdleRouted
    /\ keyed = IdleKeyed
    /\ cap = IdleCap
    /\ poly = IdlePoly
    /\ cfg = IdleCfg
    /\ topup = IdleTopup
    /\ fetch = IdleFetch
    /\ upstream = Feature(0, "published")
    /\ qcache = IdleQcache
    /\ qpolls = [p \in Pollers |-> IdleQpoll]
    /\ qlast = <<>>
    /\ dist = IdleDist
    /\ ptable = IdlePtable
    /\ tile_cats = <<>>
    /\ build = IdleBuild

SpecUpsert == InitUpsert /\ [][UpsertNext]_vars

\* Bundle builds, one after another, with or without a nav pack stored for
\* the route.
InitBuild ==
    /\ now = 0
    /\ ovl = [svc |-> "traffic", bbox |-> OffshoreBBox]
    /\ overlay_packs = <<>>
    /\ poll = IdlePoll
    /\ creq = [buffer_m |-> 0, max_edges |-> 1]
    /\ edges_db = {}
    /\ corridor_packs = [k \in CorridorKeys |-> <<>>]
    /\ ensured = IdleEnsure
    /\ preq = [op |-> "search", bbox |-> <<>>, categories |-> <<"fuel">>, limit |-> 2]
    /\ supa = FALSE
    /\ places_items = {}
    /\ supa_items = {}
    /\ places_tile_state = [k \in TileKeys |-> <<>>]
    /\ places_packs = [k \in PlacesKeys |-> <<>>]
    /\ found = IdleFound
    /\ pack_json_len \in {[t \in PackTables |-> IF t = "nav_packs" THEN nav ELSE <<>>] :
                            nav \in {<<>>, <<1>>}}
    /\ manifests = [p \in PlanIds |-> <<>>]
    /\ touched = FALSE
    /\ bundled = IdleBundle
    /\ deployed = [svc |-> "corridor", release |-> 1]
    /\ version_packs = {}
    /\ served = IdleServed
    /\ nav_packs = {}
    /\ routed = IdleRouted
    /\ keyed = IdleKeyed
    /\ cap = IdleCap
    /\ poly = IdlePoly
    /\ cfg = IdleCfg
    /\ topup = IdleTopup
    /\ fetch = IdleFetch
    /\ upstream = Feature(0, "published")
    /\ qcache = IdleQcache
    /\ qpolls = [p \in Pollers |-> IdleQpoll]
    /\ qlast = <<>>
    /\ dist = IdleDist
    /\ ptable = IdlePtable
    /\ tile_cats = <<>>
    /\ build = IdleBuild

SpecBuild == InitBuild /\ [][BuildNext]_vars

(***************************************************************************)
(* Claims about the overlay fan-out.                                       *)
(***************************************************************************)
Returned == poll.pc = "done"
ReturnedPack == poll.pack[1]
ReturnedItems == Range(ReturnedPack.items)

\* C1 (as stated): every overlay returned by Traffic.poll / Hazards.poll at
\* time now, freshly built or served from the cache, holds no event whose
\* end_at is earlier than now.
C1_NoExpiredEventReturned ==
    Returned =>
        \A it \in ReturnedItems : ~(it.end_at.kind = "iso" /\ it.end_at.t < poll.at)

C9_CacheHitIffWithinCacheSeconds ==
    Returned =>
        LET window == IF poll.cache_seconds = <<>> THEN overlays_cache_seconds
                      ELSE poll.cache_seconds[1]
            within == /\ poll.had_pack # <<>>
                      /\ poll.started - poll.had_pack[1].created_at.t <= window
        IN  /\ poll.cached <=> within
            /\ poll.cached => (poll.contacted = {} /\ poll.pack = poll.had_pack)
            /\ ~poll.cached =>
                  /\ Range(sources_of(ovl.svc, ovl.bbox)) \subseteq poll.contacted
                  /\ overlay_packs = poll.pack
                  /\ ReturnedPack.created_at = IsoStr(poll.at)

\* The same statement restricted to calls whose cache_seconds is not 0.
C9_ExceptZeroCacheSeconds ==
    poll.cache_seconds # <<0>> => C9_CacheHitIffWithinCacheSeconds

\* C10 (as stated): in a returned overlay every event with a geometry
\* intersects the query bbox, and an event without geometry appears only
\* when the diagonal of the query bbox is at least 0.35 degrees.
C10_SpatialFilterBothServices ==
    Returned =>
        \A it \in ReturnedItems :
            IF it.bbox # <<>>
            THEN _bbox_intersects(it.bbox, ovl.bbox)
            ELSE bbox_diag_sq(ovl.bbox) >= bbox_diag_min * bbox_diag_min

\* The part of C10 the code keeps: in a returned overlay every event with a
\* geometry intersects the query bbox; in a Hazards overlay an event without
\* geometry appears only when the diagonal of the query bbox is at least
\* 0.35 degrees.
C10_SpatialFilterAmended ==
    Returned =>
        \A it \in ReturnedItems :
            IF it.bbox # <<>>
            THEN _bbox_intersects(it.bbox, ovl.bbox)
            ELSE ovl.svc = "hazards" =>
                    bbox_diag_sq(ovl.bbox) >= bbox_diag_min * bbox_diag_min

\* The diagonal rule at work: a Hazards overlay over the bbox whose diagonal is exactly
\* 0.35 degrees carries an event without geometry next to a spatial one.
C10_Witness ==
    /\ Returned /\ ovl.svc = "hazards" /\ ovl.bbox = WideBBox
    /\ \E it \in ReturnedItems : it.bbox = <<>>
    /\ \E it \in ReturnedItems : it.bbox # <<>>

(***************************************************************************)
(* Claims about the corridor extractor.                                    *)
(***************************************************************************)

\* C4: once Corridor.ensure has completed for a key, a later ensure with the
\* same route_key, buffer_m, max_edges, profile and algo_version returns the
\* same corridor_key, bbox, nodes and edges, without querying the edge store
\* and without writing the pack again.
C4_EnsureIsIdempotent ==
    /\ ensured.pc = "done" =>
          /\ corridor_packs[ensured.ckey] = <<ensured.pack>>
          /\ ensured.pack.corridor_key = ensured.ckey
    /\ (ensured.pc = "done" /\ ensured.before # <<>>) =>
          /\ ensured.pack = ensured.before[1]
          /\ ensured.log = <<"get_corridor_pack">>

\* C4 witness: a later ensure answered from the stored pack although the
\* edge store no longer yields the edges of that pack.
C4_Witness ==
    /\ ensured.pc = "done" /\ ensured.before # <<>>
    /\ ensured.pack.edges # <<>>
    /\ edges_db = {}

\* Has Corridor.ensure just built a pack (no pack was stored under the key)?
EnsureBuilt == ensured.pc = "done" /\ ensured.before = <<>>

\* C13: in a pack Corridor.ensure produces, the nodes are exactly the
\* endpoints a and b its edges refer to, each node once, and no two edges
\* have the same (a, b) pair.
C13_NodesAreEndpointsEdgesDistinct ==
    EnsureBuilt =>
        LET pack == ensured.pack
            E == 1..Len(pack.edges)
            N == 1..Len(pack.nodes)
        IN  /\ {pack.nodes[j].id : j \in N}
                  = {pack.edges[i].a : i \in E} \cup {pack.edges[i].b : i \in E}
            /\ \A j, k \in N : pack.nodes[j].id = pack.nodes[k].id => j = k
            /\ \A i, k \in E :
                  (pack.edges[i].a = pack.edges[k].a /\ pack.edges[i].b = pack.edges[k].b)
                      => i = k

\* C14: in a pack Corridor.ensure produces, the declared bbox is the tight
\* bbox of the polyline expanded by buffer_m, and the coordinates of every
\* edge endpoint lie inside it.
C14_EndpointsInsideExpandedBBox ==
    EnsureBuilt =>
        LET pack == ensured.pack
            pts == ensured.route_polyline6
            lats == {pts[i][1] : i \in 1..Len(pts)}
            lngs == {pts[i][2] : i \in 1..Len(pts)}
            dlng == (creq.buffer_m * 1000) \div 800
        IN  /\ pack.bbox = BBox4(SetMin(lngs) - dlng, SetMin(lats) - creq.buffer_m,
                                 SetMax(lngs) + dlng, SetMax(lats) + creq.buffer_m)
            /\ \A j \in 1..Len(pack.nodes) :
                  /\ pack.bbox.minLat <= pack.nodes[j].lat
                  /\ pack.nodes[j].lat <= pack.bbox.maxLat
                  /\ pack.bbox.minLng <= pack.nodes[j].lng
                  /\ pack.nodes[j].lng <= pack.bbox.maxLng

\* C15: Corridor.ensure called with a polyline of fewer than two points
\* produces a pack without nodes and without edges.
C15_DegeneratePolylineGivesEmptyPack ==
    (EnsureBuilt /\ Len(ensured.route_polyline6) < 2) =>
        /\ ensured.pack.nodes = <<>>
        /\ ensured.pack.edges = <<>>

(***************************************************************************)
(* Claims about the POI engine.                                            *)
(***************************************************************************)
PlacesDone == found.pc = "done"
FoundPack == found.pack[1]
FoundItems == FoundPack.items
InLog(e) == \E i \in 1..Len(found.log) : found.log[i] = e
PlacesMiss == PlacesDone /\ found.before = <<>>

\* C3: once a search or corridor search has stored a pack under its key, a
\* later call with the same inputs computes the same key and returns the
\* stored pack unchanged (items, order, created_at), reads neither the local
\* table nor the remote store nor the external API, and does not rewrite the
\* stored pack.  (The best-effort re-publication of a cached pack to the
\* remote store is a write and is not excluded.)
C3_CacheHitReturnsStoredPack ==
    PlacesDone =>
        /\ FoundPack.places_key = key_of(preq)
        /\ places_packs[key_of(preq)] = found.pack
        /\ found.before # <<>> =>
              /\ found.pack = found.before
              /\ \A i \in 1..Len(found.log) :
                    found.log[i] \in {"get_places_pack", "supa_upsert"}

\* C3 witness: a call served from the pack cache at a later time, while the
\* local table holds an element the stored pack lacks.
C3_Witness ==
    /\ PlacesDone /\ found.before # <<>>
    /\ FoundItems # <<>>
    /\ FoundPack.created_at.t < now
    /\ \E i \in places_items : row_to_item(i).id \notin IdsOf(FoundItems)

\* C5: every item of a pack returned by search_corridor_polyline lies within
\* buffer_m of at least one sample point of the polyline of that search,
\* whichever tier delivered it and also when the pack comes from the cache.
C5_CorridorItemsWithinBuffer ==
    (PlacesDone /\ preq.op = "corridor") =>
        \A n \in 1..Len(FoundItems) :
            \E s \in Range(_sample_polyline(preq.polyline6)) :
                _haversine_m(<<FoundItems[n].lat, FoundItems[n].lng>>, s) <= preq.buffer_km

\* C5 witness: a corridor pack with an item and room left, built while the
\* local table held element 3, which lies inside the corridor bbox but
\* farther than buffer_m from every sample.
C5_Witness ==
    /\ PlacesDone /\ preq.op = "corridor"
    /\ FoundItems # <<>>
    /\ Len(FoundItems) < preq.limit
    /\ InLog("local_query")
    /\ 3 \in places_items

\* C6 (as stated): a pack returned by search or search_corridor_polyline
\* holds no two items with the same id and at most limit items.
C6_NoDuplicatesAtMostLimit ==
    PlacesDone =>
        /\ \A i, j \in 1..Len(FoundItems) : FoundItems[i].id = FoundItems[j].id => i = j
        /\ Len(FoundItems) <= preq.limit

\* C6 (amended): a returned pack holds no two items with the same id; a
\* corridor pack holds at most limit items, a search pack at most
\* max(1, min(limit or 50, places_hard_cap)) items.
C6_NoDuplicatesAtMostEffectiveLimit ==
    PlacesDone =>
        /\ \A i, j \in 1..Len(FoundItems) : FoundItems[i].id = FoundItems[j].id => i = j
        /\ Len(FoundItems) <=
              (IF preq.op = "search"
               THEN (IF preq.limit = 0 THEN 50
                     ELSE IF preq.limit < 1 THEN 1
                     ELSE IF preq.limit > 12000 THEN 12000 ELSE preq.limit)
               ELSE preq.limit)

\* C6 witness: a pack filled up to its limit by the external tier and a
\* supplementing tier that also held the external items.
C6_Witness ==
    /\ PlacesMiss
    /\ found.overpass_count >= 1
    /\ Len(FoundItems) > found.overpass_count
    /\ Len(FoundItems) = preq.limit
    /\ \A n \in 1..Len(FoundItems) : osm_id_of(FoundItems[n]) \in places_items

C8_ExternalBeforeSupplement ==
    (PlacesMiss /\ preq.op = "corridor") =>
        /\ \A i \in 1..Len(found.log) :
              found.log[i] \in {"local_query", "supa_query"} =>
                  \E j \in 1..(i - 1) : found.log[j] \in {"overpass:ok", "overpass:failed"}
        /\ \A i, j \in 1..Len(found.log) :
              (found.log[i] = "local_query" /\ found.log[j] = "supa_query") => i < j
        /\ (InLog("local_query") \/ InLog("supa_query")) =>
              found.overpass_count < preq.limit
        /\ Len(FoundItems) >= found.overpass_count

\* C8 witness: the external query failed, and the local table and then the
\* remote store supplied the items.
C8_Witness ==
    /\ PlacesMiss /\ preq.op = "corridor"
    /\ InLog("overpass:failed")
    /\ InLog("local_query") /\ InLog("supa_query")
    /\ Len(FoundItems) = 2

(***************************************************************************)
(* Claims about the offline bundle.                                        *)
(***************************************************************************)
\* The row a pack table holds under an optional key, read from the table.
RowUnder(table, key) ==
    IF key # <<>> /\ key[1] = StoredKey[table] THEN pack_json_len[table] ELSE <<>>

\* The not_found codes of the assets the plan's manifest refers to and the
\* store does not hold.
MissingCodes(plan_id) ==
    IF manifests[plan_id] = <<>> THEN {"bundle_missing"}
    ELSE LET m == manifests[plan_id][1]
         IN  {c \in {"navpack_missing", "corridor_missing", "places_missing",
                     "traffic_missing", "hazards_missing"} :
                \/ c = "navpack_missing" /\ RowUnder("nav_packs", <<m.route_key>>) = <<>>
                \/ c = "corridor_missing"
                      /\ RowUnder("corridor_packs", m.corridor_key) = <<>>
                \/ c = "places_missing" /\ m.places_key # <<>>
                      /\ RowUnder("places_packs", m.places_key) = <<>>
                \/ c = "traffic_missing" /\ m.traffic_key # <<>>
                      /\ RowUnder("traffic_packs", m.traffic_key) = <<>>
                \/ c = "hazards_missing" /\ m.hazards_key # <<>>
                      /\ RowUnder("hazard_packs", m.hazards_key) = <<>>}

\* C11: Bundle.build_zip returns an archive only when the manifest, the nav
\* pack, the corridor pack and every places/traffic/hazards pack whose key
\* the manifest sets are in the store; when one is missing it raises
\* not_found with the code of a missing asset and returns no archive, and an
\* archive it returns holds every referenced pack.
C11_ZipOnlyWhenAllPresent ==
    bundled.op = "build_zip" =>
        LET missing == MissingCodes("p1")
        IN  IF missing = {}
            THEN /\ bundled.error = <<>>
                 /\ bundled.archive # <<>>
                 /\ LET z == bundled.archive[1]
                        m == manifests["p1"][1]
                    IN  /\ z.manifest = m
                        /\ z.navpack = pack_json_len["nav_packs"]
                        /\ z.corridor = pack_json_len["corridor_packs"]
                        /\ z.places = RowUnder("places_packs", m.places_key)
                        /\ z.traffic = RowUnder("traffic_packs", m.traffic_key)
                        /\ z.hazards = RowUnder("hazard_packs", m.hazards_key)
            ELSE /\ bundled.archive = <<>>
                 /\ bundled.error # <<>>
                 /\ bundled.error[1] \in missing

\* C11 witness: the manifest, the nav pack and the corridor pack are stored,
\* the traffic pack the manifest refers to is not, and build_zip has raised
\* traffic_missing.
C11_Witness ==
    /\ bundled.op = "build_zip"
    /\ manifests["p1"] # <<>>
    /\ manifests["p1"][1].traffic_key # <<>>
    /\ pack_json_len["nav_packs"] # <<>>
    /\ pack_json_len["corridor_packs"] # <<>>
    /\ pack_json_len["traffic_packs"] = <<>>
    /\ bundled.error = <<"traffic_missing">>

\* The stored byte lengths of the assets a manifest marks ready, summed.
ReadyBytes(m) ==
    LET len(row) == IF row = <<>> THEN 0 ELSE row[1]
    IN  (IF m.navpack_status = "ready"
         THEN len(RowUnder("nav_packs", <<m.route_key>>)) ELSE 0)
      + (IF m.corridor_status = "ready"
         THEN len(RowUnder("corridor_packs", m.corridor_key)) ELSE 0)
      + (IF m.places_status = "ready"
         THEN len(RowUnder("places_packs", m.places_key)) ELSE 0)
      + (IF m.traffic_status = "ready"
         THEN len(RowUnder("traffic_packs", m.traffic_key)) ELSE 0)
      + (IF m.hazards_status = "ready"
         THEN len(RowUnder("hazard_packs", m.hazards_key)) ELSE 0)

\* Do two manifests agree in everything but created_at?
EquivalentManifests(m1, m2) ==
    [m1 EXCEPT !.created_at = NoneStr] = [m2 EXCEPT !.created_at = NoneStr]

\* C12 (as stated): build_manifest sets bytes_total to the sum of the stored
\* byte lengths of the assets it marks ready, and a call with the same
\* arguments as the call before persists a manifest with the same keys,
\* statuses and bytes_total.
C12_SameArgumentsSameManifest ==
    bundled.op = "build_manifest" =>
        /\ manifests["p1"] = bundled.manifest
        /\ bundled.manifest[1].bytes_total = ReadyBytes(bundled.manifest[1])
        /\ bundled.previous # <<>> =>
              EquivalentManifests(bundled.previous[1], bundled.manifest[1])

\* C12 (amended): the same, for two calls between which no pack row was
\* written.
C12_SameArgumentsSameStoreSameManifest ==
    bundled.op = "build_manifest" =>
        /\ manifests["p1"] = bundled.manifest
        /\ bundled.manifest[1].bytes_total = ReadyBytes(bundled.manifest[1])
        /\ (bundled.previous # <<>> /\ bundled.undisturbed) =>
              EquivalentManifests(bundled.previous[1], bundled.manifest[1])

\* C12 witness: the full call is repeated over an unchanged store that holds
\* all five packs, and the manifest adds up their lengths.
C12_Witness ==
    /\ bundled.op = "build_manifest"
    /\ bundled.args = <<FullCall>>
    /\ bundled.previous # <<>>
    /\ bundled.undisturbed
    /\ \A t \in PackTables : pack_json_len[t] # <<>>
    /\ bundled.manifest[1].bytes_total > Cardinality(PackTables)

(***************************************************************************)
(* Claims about the versioned keys.                                        *)
(***************************************************************************)
\* C16: a pack stored while the service ran with one algo_version is never
\* returned by a call that runs with another algo_version for the same
\* request: the pack a call returns was derived for its request under the
\* algo_version that runs, and the first call for a request after a version
\* change derives the pack again.
C16_VersionBumpInvalidatesPacks ==
    served.op = "done" =>
        LET running == algo_version_at(deployed.svc, deployed.release)
            pack == served.pack[1]
        IN  /\ pack.algo_version = running
            /\ pack.req = served.req[1]
            /\ \A row \in version_packs :
                  (row.pack.req = served.req[1] /\ row.pack.algo_version # running)
                      => row.pack # pack

\* C16 witness: the second release runs, the table still holds the pack the
\* first release stored for the request, and the call has derived the pack
\* again instead of returning it.
C16_Witness ==
    /\ served.op = "done"
    /\ deployed.release = 2
    /\ ~served.hit
    /\ \E row \in version_packs :
          /\ row.pack.req = served.req[1]
          /\ row.pack.algo_version = algo_version_at(deployed.svc, 1)


(***************************************************************************)
(* Claims about route keys and nav packs.                                  *)
(***************************************************************************)
\* C17: for nav, corridor and places packs, once a payload is stored under
\* a key no later operation changes the payload stored under that key; a
\* repeated POST /nav/route for the same request is such an operation.
C17_StoredPayloadNeverChanges ==
    [][/\ \A row \in nav_packs : row \in nav_packs'
       /\ \A k \in CorridorKeys :
             corridor_packs[k] # <<>> => corridor_packs'[k] = corridor_packs[k]
       /\ \A k \in PlacesKeys :
             places_packs[k] # <<>> => places_packs'[k] = places_packs[k]]_vars

\* Two requests agree on what the claim lets the key depend on: profile,
\* prefs, avoid, depart_at, and for each stop the rounded coordinates and the
\* type, a missing type counting as poi.
AgreeOnKeyedFields(a, b) ==
    LET na == normalize_nav_request(a)[1]
        nb == normalize_nav_request(b)[1]
    IN  /\ na.profile = nb.profile
        /\ na.prefs = nb.prefs
        /\ na.avoid = nb.avoid
        /\ na.depart_at = nb.depart_at
        /\ Len(na.stops) = Len(nb.stops)
        /\ \A i \in 1..Len(na.stops) :
              /\ na.stops[i].lat = nb.stops[i].lat
              /\ na.stops[i].lng = nb.stops[i].lng
              /\ na.stops[i].type = nb.stops[i].type

\* C18: two requests that agree on the rounded coordinates and the type of
\* every stop and on profile, prefs, avoid and depart_at get the same
\* route_key under one algo_version, whatever else they differ in; a request
\* with fewer than two stops gets no key.
C18_KeyDependsOnlyOnRoundedStops ==
    keyed.pc = "done" =>
        /\ Len(keyed.a.stops) < 2 => keyed.key_a = <<>>
        /\ Len(keyed.b.stops) < 2 => keyed.key_b = <<>>
        /\ (/\ Len(keyed.a.stops) >= 2
            /\ Len(keyed.b.stops) >= 2
            /\ AgreeOnKeyedFields(keyed.a, keyed.b))
           => keyed.key_a = keyed.key_b


(***************************************************************************)
(* Claims about the CAP priority.                                          *)
(***************************************************************************)
\* a's severity, urgency and certainty scores are each at least b's.
Dominates(a, b) == \A i \in 1..3 : cap_scores(a)[i] >= cap_scores(b)[i]

\* The weighted sum of an alert's scores, in units of 1e-4.
WeightedSum(alert) ==
    cap_scores(alert)[1] * 40 + cap_scores(alert)[2] * 35 + cap_scores(alert)[3] * 25

\* C19: if alert a's severity, urgency and certainty scores are each greater
\* than or equal to alert b's, the effective priority computed for a is
\* greater than or equal to the one computed for b.
C19_DominationGivesHigherPriority ==
    (cap.pc = "done" /\ Dominates(cap.a, cap.b)) => cap.pa >= cap.pb

\* Two scored alerts, a above b in one score only, where a's sum lies halfway
\* between two thousandths and is rounded to the lower one while b's is rounded
\* up.
C19_Witness ==
    /\ cap.pc = "done"
    /\ Dominates(cap.a, cap.b)
    /\ cap_scores(cap.a) # cap_scores(cap.b)
    /\ WeightedSum(cap.a) % 10 = 5
    /\ cap.pa = WeightedSum(cap.a) \div 10
    /\ WeightedSum(cap.b) % 10 = 5
    /\ cap.pb = WeightedSum(cap.b) \div 10 + 1
    /\ cap.pa > cap.pb

(***************************************************************************)
(* Claims about polyline6.                                                 *)
(***************************************************************************)
\* Every coordinate of the list has at most 6 decimal places.
AlreadyRounded(coords) ==
    \A i \in 1..Len(coords) : coords[i][1] % 10 = 0 /\ coords[i][2] % 10 = 0

\* C20: for a list of coordinates already rounded to 6 decimal places,
\* decoding the encoding of the list returns exactly the list: same length,
\* same order, same values.
C20_PolylineRoundTrip ==
    (poly.pc = "decoded" /\ AlreadyRounded(poly.coords)) => poly.decoded = poly.coords

\* A list that goes from the south-west corner of the coordinate range to the
\* north-east one has been encoded and decoded back.
C20_Witness ==
    /\ poly.pc = "decoded"
    /\ poly.coords = << <<-900000000, -1800000000>>, <<900000000, 1800000000>> >>
    /\ Len(poly.encoded) > 4
    /\ poly.decoded = poly.coords

(***************************************************************************)
(* Claims about the merge step of an overlay poll.                         *)
(***************************************************************************)
\* The event that was collected first under the id, among all the events the
\* sources of the poll produced.
FirstSeen(items, id) ==
    items[CHOOSE i \in 1..Len(items) :
            /\ items[i].id = id
            /\ \A j \in 1..(i - 1) : items[j].id # id]

IssuedSources ==
    {sources_of(ovl.svc, ovl.bbox)[i] : i \in 1..poll.idx}

\* C22: within one poll the fetches to all selected sources run concurrently:
\* while the poll awaits the response of a source, the request to every other
\* source of the poll has been issued.
C22_AllSourcesFetchedConcurrently ==
    poll.pc = "fetch" => IssuedSources = Range(sources_of(ovl.svc, ovl.bbox))

(***************************************************************************)
(* Claims about the QLD merge cache.                                       *)
(***************************************************************************)
\* C23: under any interleaving of concurrent polls, no completed delta merge
\* is lost: when a full refresh whose request was issued before the request
\* of the last completed delta merge replaces the map, what it writes is not
\* older than what that delta merged.
C23_NoDeltaLostToOlderFullRefresh ==
    [][\A p \in Pollers :
          (/\ qpolls[p].pc = "full"
           /\ qpolls'[p].pc = "done"
           /\ qpolls'[p].ok
           /\ qlast # <<>>
           /\ qpolls[p].issued_at < qlast[1].issued_at)
          => qpolls[p].resp[1].rev >= qlast[1].feature.rev]_vars

(***************************************************************************)
(* Claims about the tiled top-up of Places.search.                         *)
(***************************************************************************)
\* The ledger row of tile k, and whether its last_fetched is within the
\* tile TTL of now.
LedgerRow(k) == places_tile_state[TopupTiles[k][1]]
WithinTTL(k) == LedgerRow(k) # <<>> /\ (now - LedgerRow(k)[1].t) <= cfg.ttl_s

\* A step that sends a request to the external API.
QuerySent == fetch'.tile = fetch.tile /\ Len(fetch'.posts) = Len(fetch.posts) + 1

\* A step of the head of the tile loop.
HeadStep == topup.pc = "head" /\ topup' # topup

\* The head of the tile loop gets past its limit and budget tests for tile k.
HeadReachesTile ==
    /\ topup.k <= Len(TopupTiles)
    /\ Len(topup.items) < effective_limit(topup.req[1].limit)
    /\ ~budget_spent(topup.started, cfg.time_budget_s, topup.tiles_fetched)

\* C24: during the tiled top-up no external query is sent for a tile whose
\* ledger last_fetched is within the tile TTL of now; a tile the loop reaches
\* that has no ledger row, or a row older than the TTL, is fetched, and a
\* tile is skipped only when its row is within the TTL; no ledger row is ever
\* deleted.
C24_FreshTilesAreNotQueried ==
    [][/\ QuerySent => ~WithinTTL(fetch.tile)
       /\ (HeadStep /\ HeadReachesTile /\ ~WithinTTL(topup.k))
              => (topup'.pc = "fetching" /\ fetch'.tile = topup.k
                  /\ fetch'.state = "ready")
       /\ (HeadStep /\ topup'.skipped # topup.skipped) => WithinTTL(topup.k)
       /\ \A key \in TopupTileKeys :
              places_tile_state[key] # <<>> => places_tile_state'[key] # <<>>]_vars

\* One call has skipped a tile whose row is within the TTL and has sent a
\* query for a tile whose row has grown older than the TTL.
C24_Witness ==
    /\ topup.skipped # {}
    /\ fetch.posts # <<>>
    /\ topup.pc = "fetching"
    /\ LedgerRow(fetch.tile) = <<IsoStr(-1)>>
    /\ now - LedgerRow(fetch.tile)[1].t > cfg.ttl_s

\* A step that writes the ledger row of tile k.
LedgerWritten(k) ==
    places_tile_state'[TopupTiles[k][1]] # places_tile_state[TopupTiles[k][1]]

\* C25 (as stated): a tile's ledger row is written only after the external
\* fetch of that tile has returned, and by then every item returned for the
\* tile is in the local table; a fetch that raised leaves the ledger as it
\* was.
C25_LedgerWrittenAfterFetchAndUpsert ==
    [][/\ \A k \in 1..Len(TopupTiles) :
              LedgerWritten(k)
              => /\ fetch.tile = k
                 /\ fetch.state = "returned"
                 /\ \A j \in 1..Len(fetch.body) : fetch.body[j] \in places_items'
       /\ fetch'.state = "raised" => places_tile_state' = places_tile_state]_vars

\* The part of C25 that the code keeps: the row is written only after the
\* fetch has returned, and a fetch that raised leaves the ledger as it was.
C25_LedgerWrittenAfterFetch ==
    [][/\ \A k \in 1..Len(TopupTiles) :
              LedgerWritten(k) => (fetch.tile = k /\ fetch.state = "returned")
       /\ fetch'.state = "raised" => places_tile_state' = places_tile_state]_vars

\* C26: with max_overpass_tiles_per_req >= 1, one Places.search call sends
\* external queries for at most that many tiles, each tile at most once.
C26_AtMostCapTilesQueried ==
    cfg.max_overpass_tiles >= 1
    => /\ Len(topup.queried) <= cfg.max_overpass_tiles
       /\ \A i, j \in 1..Len(topup.queried) :
              topup.queried[i] = topup.queried[j] => i = j

\* The loop has stopped at the cap in front of a tile that is still stale.
C26_Witness ==
    /\ topup.outcome = "cap"
    /\ Len(topup.queried) = cfg.max_overpass_tiles
    /\ topup.k <= Len(TopupTiles)
    /\ ~WithinTTL(topup.k)

\* The per-request budget of the call in progress has elapsed.
BudgetElapsed ==
    topup.pc \in {"head", "fetching"} /\ (now - topup.started) >= cfg.time_budget_s

\* A step that starts the fetch of a tile.
FetchStarted == topup.pc = "head" /\ topup'.pc = "fetching"

\* C27 (as stated): once the per-request budget has elapsed during the tiled
\* top-up, no tile fetch is started and no further request is sent to the
\* external API.
C27_NothingSentAfterBudget ==
    [][BudgetElapsed => (~FetchStarted /\ ~QuerySent)]_vars

\* The part of C27 that the code keeps: after the budget has elapsed, no
\* tile fetch is started once a tile has been fetched.
C27_NoTileAfterBudgetOnceFetched ==
    [][(BudgetElapsed /\ topup.tiles_fetched > 0) => ~FetchStarted]_vars

(***************************************************************************)
(* Claims about _fetch_overpass_with_retries.                              *)
(***************************************************************************)
Sent == Len(fetch.posts)
LastStatus == fetch.posts[Sent]

\* C28: one _fetch_overpass_with_retries call sends at most overpass_retries
\* requests; after a 429, 502, 503 or 504 with attempts left it is about to
\* send another one; it returns at the first 200, with the body of that
\* response and without sending more; it raises exactly when every attempt
\* is used up without a 200.
C28_RetryLoop ==
    /\ Sent <= cfg.overpass_retries
    /\ (Sent > 0 /\ LastStatus \in {429, 502, 503, 504} /\ Sent < cfg.overpass_retries)
           => fetch.state = "ready"
    /\ \A i \in 1..Sent : fetch.posts[i] = 200 => i = Sent
    /\ (Sent > 0 /\ LastStatus = 200) => fetch.state \in {"returned", "done"}
    /\ fetch.state \in {"returned", "done"} => (Sent > 0 /\ LastStatus = 200)
    /\ fetch.state = "raised" <=> (Sent > 0 /\ Sent = cfg.overpass_retries
                                   /\ LastStatus # 200)

\* A call has been answered 503, has sent a second request and has returned
\* the body of its 200.
C28_Witness ==
    /\ fetch.posts = <<503, 200>>
    /\ fetch.state = "returned"
    /\ fetch.body # <<>>

\* A call has used up its attempts on retryable statuses and has raised.
C28_WitnessRaised ==
    /\ fetch.posts = <<429, 504>>
    /\ fetch.state = "raised"

\* C29 (as stated): a response with an error status that is not 429, 502,
\* 503 or 504 ends the call: it is the last request sent, the call has
\* raised, and no backoff sleep follows it.
C29_NonRetryableStatusNotRetried ==
    \A i \in 1..Sent :
        fetch.posts[i] = 400
        => (i = Sent /\ fetch.state = "raised" /\ fetch.sleeps = i - 1)

(***************************************************************************)
(* Claims about the remote canonical store.                                *)
(***************************************************************************)
\* The call in `found` went past the pack cache and built its pack.
PlacesBuilt == PlacesDone /\ found.returned_at # "cache"

\* C30: whether the remote store answers or fails, a search or corridor
\* search that builds its pack returns it and stores it under its key as its
\* last step, every item it returns is in the local table, every Overpass
\* answer with elements is followed by the local upsert, and a tile that
\* Overpass answered for is marked in the ledger.
C30_RemoteFailureIsHarmless ==
    PlacesBuilt =>
        /\ found.pack # <<>>
        /\ places_packs[key_of(preq)] = found.pack
        /\ found.log[Len(found.log)] = "put_places_pack"
        /\ \A i \in 1..Len(FoundItems) : osm_id_of(FoundItems[i]) \in places_items
        /\ \A i \in 1..Len(found.log) :
              found.log[i] = "supa_upsert"
              => (i = Len(found.log) - 1 \/ found.log[i - 1] = "local_upsert")
        /\ (preq.op = "search" /\ InLog("overpass:ok"))
              => /\ InLog("mark_tile_fetched")
                 /\ \A key \in TileKeys : places_tile_state[key] # <<>>

\* A search with a remote store that fails: Overpass answered with
\* elements, the publication of the items failed (they are not in the remote
\* table), and the items are in the local table, the tile is marked and the
\* pack is stored.
C30_Witness ==
    /\ supa
    /\ PlacesBuilt
    /\ preq.op = "search"
    /\ InLog("overpass:ok")
    /\ InLog("supa_upsert")
    /\ InLog("mark_tile_fetched")
    /\ FoundItems # <<>>
    /\ \E i \in 1..Len(FoundItems) : osm_id_of(FoundItems[i]) \notin supa_items
    /\ \A i \in 1..Len(FoundItems) : osm_id_of(FoundItems[i]) \in places_items
    /\ places_packs[key_of(preq)] = found.pack

\* A corridor search with a remote store that fails in the same way.
C30_WitnessCorridor ==
    /\ supa
    /\ PlacesBuilt
    /\ preq.op = "corridor"
    /\ InLog("supa_upsert")
    /\ InLog("supa_query")
    /\ FoundItems # <<>>
    /\ \E i \in 1..Len(FoundItems) : osm_id_of(FoundItems[i]) \notin supa_items
    /\ places_packs[key_of(preq)] = found.pack

(***************************************************************************)
(* Claims about cache_seconds = 0.                                         *)
(***************************************************************************)
\* C39 (as stated): a poll called with cache_seconds = 0 never serves a pack
\* that was stored before: it contacts the sources again and stores and
\* returns a pack it has just built.
C39_ZeroCacheSecondsAlwaysFetches ==
    (Returned /\ poll.cache_seconds = <<0>>) =>
        /\ ~poll.cached
        /\ Range(sources_of(ovl.svc, ovl.bbox)) \subseteq poll.contacted
        /\ overlay_packs = poll.pack
        /\ ReturnedPack.created_at = IsoStr(poll.at)

(***************************************************************************)
(* Claims about a corridor search whose external query fails.              *)
(***************************************************************************)
NoOverpassInLog == ~InLog("overpass:ok") /\ ~InLog("overpass:failed")

\* C37: a corridor search whose Overpass query failed still returns a pack,
\* built from the local and remote tiers only, and stores it under its key;
\* once a pack is stored under the key of a corridor request, every call
\* returns that pack, leaves it as it is and sends no Overpass query.
C37_FailedExternalQueryIsCachedForGood ==
    /\ [](PlacesDone /\ preq.op = "corridor" /\ InLog("overpass:failed")
            => /\ found.pack # <<>>
               /\ places_packs[key_of(preq)] = found.pack
               /\ FoundPack.provider \in {"corridor", "corridor+supa"}
               /\ found.log[Len(found.log)] = "put_places_pack")
    /\ [][(preq.op = "corridor" /\ places_packs[key_of(preq)] # <<>>)
            => /\ places_packs' = places_packs
               /\ found' # found
                     => /\ found'.pack = places_packs[key_of(preq)]
                        /\ \A i \in 1..Len(found'.log) :
                              found'.log[i] \notin {"overpass:ok", "overpass:failed"}]_vars

\* A corridor search whose Overpass query failed has returned and stored a
\* pack with an item of the local table.
C37_Witness ==
    /\ PlacesDone /\ preq.op = "corridor"
    /\ InLog("overpass:failed")
    /\ InLog("local_query")
    /\ FoundItems # <<>>
    /\ places_packs[key_of(preq)] = found.pack

\* A later identical corridor request has been served the stored pack, which
\* no Overpass answer went into, without an Overpass query.
C37_WitnessServed ==
    /\ PlacesDone /\ preq.op = "corridor"
    /\ found.before # <<>>
    /\ found.pack = found.before
    /\ FoundPack.provider = "corridor"
    /\ FoundPack.created_at.t < now
    /\ NoOverpassInLog

(***************************************************************************)
(* Claims about the 500 m early exit.                                      *)
(***************************************************************************)
\* The true minimum distance from the item to the samples.
TrueMinDistance ==
    SetMin({_haversine_m(<<dist.lat, 0>>, dist.samples[i]) : i \in 1..Len(dist.samples)})

\* C34 (as stated): for every buffer_m, below 500 m too, an item is accepted
\* exactly when its true minimum distance over all sample points is at most
\* buffer_m.
C34_EarlyExitNeverChangesDecision ==
    (dist.pc = "done" /\ dist.samples # <<>>) =>
        (dist.accepted <=> TrueMinDistance <= dist.buffer_m)

\* The part of C34 that the code keeps: the same, for buffers of at least
\* 500 m.
C34_EarlyExitHarmlessFrom500 ==
    (dist.pc = "done" /\ dist.samples # <<>> /\ dist.buffer_m >= near_m) =>
        (dist.accepted <=> TrueMinDistance <= dist.buffer_m)

(***************************************************************************)
(* Claims about upsert_items.                                              *)
(***************************************************************************)
SameKey(r, q) == r.osm_type = q.osm_type /\ r.osm_id = q.osm_id

OneRowPerKey == \A r, q \in ptable.rows : SameKey(r, q) => r = q

\* Every stored row is still there after the step, with its first_seen, a
\* last_seen that is not earlier, and its name and category unless the
\* step supplied others.
RowsKept ==
    \A r \in ptable.rows : \E q \in ptable'.rows :
        /\ SameKey(r, q)
        /\ q.first_seen = r.first_seen
        /\ q.last_seen.t >= r.last_seen.t
        /\ r.name # <<>> => q.name # <<>>
        /\ r.category # <<>> => q.category # <<>>

\* C35: after any sequence of upsert_items calls the table holds at most one
\* row per (osm_type, osm_id), and re-upserting an item keeps its first_seen,
\* never moves its last_seen backwards and never replaces a stored name or
\* category with null.
C35_UpsertMergesOnKey == []OneRowPerKey /\ [][RowsKept]_vars

\* An item first upserted with a name and a category has been upserted
\* again, later, without them, while the other feature with the same osm_id
\* has a row of its own.
C35_Witness ==
    /\ ptable.cur # <<>>
    /\ ptable.cur[1].name = <<>> /\ ptable.cur[1].category = <<>>
    /\ \E r \in ptable.rows :
          /\ SameKey(r, ptable.cur[1])
          /\ r.last_seen = ptable.cur[1].last_seen
          /\ r.first_seen.t < r.last_seen.t
          /\ r.name = <<"a">> /\ r.category = <<"fuel">>
    /\ Cardinality(ptable.rows) = 2

\* The categories of the last successful fetch of tile k, from its ledger row.
LastFetchCovered(k) == tile_cats[TopupTiles[k][1]]

\* C36 (as stated): a tile is skipped as fresh only if its last successful
\* fetch covered the categories now requested; a request for categories that
\* were not part of the tile's last fetch still queries the external API for
\* that tile.
C36_FreshOnlyForCoveredCategories ==
    [][/\ (HeadStep /\ topup'.skipped # topup.skipped)
              => Range(topup.req[1].categories) \subseteq LastFetchCovered(topup.k)
       /\ (HeadStep /\ HeadReachesTile
           /\ ~(Range(topup.req[1].categories) \subseteq LastFetchCovered(topup.k)))
              => (topup'.pc = "fetching" /\ fetch'.tile = topup.k)]_vars

\* What the code keeps: a tile is skipped only when its ledger row is within
\* the TTL, whatever categories the row was written for.
C36_FreshByAgeAlone ==
    [][(HeadStep /\ topup'.skipped # topup.skipped)
           => (WithinTTL(topup.k) /\ LastFetchCovered(topup.k) \in PriorCategories)]_vars

(***************************************************************************)
(* Claims about POST /bundle/build.                                        *)
(***************************************************************************)
\* The request has an empty plan_id, route_key or geometry.
EmptyField(req) == req.plan_id = "" \/ req.route_key = "" \/ req.geometry = ""

\* The step writes a pack or a manifest.
BuildWrites == pack_json_len' # pack_json_len \/ manifests' # manifests

\* C31: a request with an empty plan_id, route_key or geometry is rejected
\* as bad_request before any pack or manifest is written; otherwise the
\* manifest is persisted only after the corridor pack, the places pack and
\* both overlay packs of this build have been stored, and it references
\* exactly the keys of those packs.
C31_ValidateThenPacksThenManifest ==
    [][/\ (build'.req # <<>> /\ EmptyField(build'.req[1]))
              => (/\ ~BuildWrites
                  /\ build'.pc = "failed"
                  /\ build'.error = <<"bad_bundle_request">>)
       /\ manifests' # manifests
              => (/\ \A t \in BuildTables :
                        /\ t \in build.derived \cup build.reused
                        /\ build.keys[t] # <<>>
                        /\ get_pack_row(t, build.keys[t][1]) # <<>>
                  /\ LET m == manifests'[build.req[1].plan_id][1]
                     IN  /\ m.corridor_key = build.keys["corridor_packs"]
                         /\ m.places_key = build.keys["places_packs"]
                         /\ m.traffic_key = build.keys["traffic_packs"]
                         /\ m.hazards_key = build.keys["hazard_packs"])]_vars

\* A request with an empty field has just been rejected, after an earlier
\* build that derived all four packs persisted its manifest.
C31_Witness ==
    /\ build.error = <<"bad_bundle_request">>
    /\ manifests["p1"] # <<>>
    /\ \A t \in BuildTables : pack_json_len[t] # <<>>
    /\ manifests["p1"][1].corridor_key = <<"ck1">>

\* A build has persisted its manifest after deriving all four packs.
C31_WitnessBuilt == build.pc = "done" /\ build.derived = BuildTables

\* The calls among places.search, traffic.poll and hazards.poll that have
\* returned, by the position of build_bundle.
TasksFinished ==
    CASE build.pc = "traffic" -> {"places"}
      [] build.pc = "hazards" -> {"places", "traffic"}
      [] build.pc \in {"manifest", "done"} -> {"places", "traffic", "hazards"}
      [] OTHER -> {}

\* A step in which build_bundle makes one of the three calls.
TaskStarts == build.pc \in {"places", "traffic", "hazards"} /\ build' # build

\* C32 (as stated): after the corridor has been ensured, the POI search and
\* the traffic and hazards polls run in parallel: none of the three waits for
\* another of them to finish before it starts.
C32_PoiAndOverlaysInParallel == [][TaskStarts => TasksFinished = {}]_vars

\* What the code does: the three calls are made one after the other, each
\* after the one before it has returned.
C32_OneAfterTheOther ==
    [][/\ (TaskStarts /\ build.pc = "traffic") => "places_packs" \in DOMAIN build.keys
                                                  /\ build.keys["places_packs"] # <<>>
       /\ (TaskStarts /\ build.pc = "hazards") => build.keys["traffic_packs"] # <<>>]_vars

\* The table the call at the current position of build_bundle works on.
TableAt(pc) ==
    CASE pc = "ensure" -> "corridor_packs"
      [] pc = "places" -> "places_packs"
      [] pc = "traffic" -> "traffic_packs"
      [] pc = "hazards" -> "hazard_packs"

\* A step in which build_bundle calls the service of table t.
CallsService(t) ==
    /\ build.pc \in {"ensure", "places", "traffic", "hazards"}
    /\ TableAt(build.pc) = t
    /\ build' # build

\* The step returns the stored pack of table t and writes nothing.
Reuses(t) == t \in build'.reused /\ pack_json_len' = pack_json_len

\* The stored overlay pack of table t is older than the overlay cache window.
OverlayPackStale(t) ==
    /\ build.overlay_at[t] # <<>>
    /\ now - build.overlay_at[t][1].t > overlays_cache_seconds

\* A failing step leaves every stored pack and manifest as it was, and no
\* step removes a stored pack.
FailureKeepsPacks ==
    /\ (build'.pc = "failed" /\ build' # build) => ~BuildWrites
    /\ \A t \in PackTables : pack_json_len[t] # <<>> => pack_json_len'[t] # <<>>

\* C33 (as stated): if a build fails after some packs were stored, those
\* packs remain stored under their keys, no manifest is written for the
\* failed build, and the next build with the same inputs reuses the stored
\* packs instead of deriving them again.
C33_NextBuildReusesStoredPacks ==
    [][/\ FailureKeepsPacks
       /\ \A t \in BuildTables :
              (build.retry /\ CallsService(t) /\ pack_json_len[t] # <<>>)
                  => Reuses(t)]_vars

\* C33 (amended): the packs remain and no manifest is written; the next
\* build with the same inputs reuses the stored corridor and places packs,
\* and a stored traffic or hazards pack while it is not older than the
\* overlay cache window; an older overlay pack is fetched again.
C33_NextBuildReusesStoredPacksWhileFresh ==
    [][/\ FailureKeepsPacks
       /\ \A t \in BuildTables \ OverlayTables :
              (build.retry /\ CallsService(t) /\ pack_json_len[t] # <<>>)
                  => Reuses(t)
       /\ \A t \in OverlayTables :
              (build.retry /\ CallsService(t) /\ pack_json_len[t] # <<>>)
                  => /\ ~OverlayPackStale(t) => Reuses(t)
                     /\ OverlayPackStale(t) => t \notin build'.reused]_vars

\* The build after a failed one with the same inputs has reused the stored
\* corridor, places and traffic packs.
C33_Witness ==
    /\ build.retry
    /\ build.pc = "hazards"
    /\ build.reused = {"corridor_packs", "places_packs", "traffic_packs"}

\* The build after a failed one has reused the corridor and places packs and
\* has fetched and stored the traffic overlay.
C33_WitnessStale ==
    /\ build.retry
    /\ build.reused = {"corridor_packs", "places_packs"}
    /\ "traffic_packs" \in build.derived

\* The manifest the build that has just succeeded persisted.
BuiltManifest == manifests[build.req[1].plan_id][1]

\* Every asset the manifest marks ready has a pack stored under its key.
ReadyAssetsStored ==
    LET m == BuiltManifest
    IN  /\ m.navpack_status = "ready" => get_pack_row("nav_packs", m.route_key) # <<>>
        /\ m.corridor_status = "ready"
               => (m.corridor_key # <<>>
                   /\ get_pack_row("corridor_packs", m.corridor_key[1]) # <<>>)
        /\ m.places_status = "ready"
               => (m.places_key # <<>>
                   /\ get_pack_row("places_packs", m.places_key[1]) # <<>>)
        /\ m.traffic_status = "ready"
               => (m.traffic_key # <<>>
                   /\ get_pack_row("traffic_packs", m.traffic_key[1]) # <<>>)
        /\ m.hazards_status = "ready"
               => (m.hazards_key # <<>>
                   /\ get_pack_row("hazard_packs", m.hazards_key[1]) # <<>>)

\* C38 (as stated): every manifest persisted by a successful build_bundle
\* marks an asset ready only if a pack is stored under that asset's key at
\* that moment, so build_zip for the same plan_id, called right after the
\* build, never raises not_found.
C38_BuiltManifestCanBeZipped ==
    build.pc = "done" =>
        /\ ReadyAssetsStored
        /\ build_zip(build.req[1].plan_id).error = <<>>

\* What the code keeps: the same, when a nav pack is stored for the route.
C38_BuiltManifestCanBeZippedGivenNavPack ==
    (build.pc = "done" /\ pack_json_len["nav_packs"] # <<>>) =>
        /\ ReadyAssetsStored
        /\ build_zip(build.req[1].plan_id).error = <<>>

====
